---- MODULE Spec2Model ----
(***************************************************************************)
(* Answer extraction (eval/common/question_logic.py), scoring              *)
(* (eval/evaluate.py) and the runners (eval/run.py, vllm_offline) of the   *)
(* AgentLong benchmark.                                                    *)
(*                                                                         *)
(* A Python str is a sequence of one-character strings; the answer tags    *)
(* are single elements of that sequence ("<answer>", "</answer>" and their *)
(* upper-case spellings).  A Python value is a record [t, v]: t is the     *)
(* Python type, v the payload.  A Python int is kept as its decimal        *)
(* spelling (a sequence of characters), so that it has no width.           *)
(***************************************************************************)
EXTENDS Integers, Sequences, FiniteSets, TLC

VARIABLES question_type, history_label, pc,
          \* the extractor
          raw_text, parsed, raw_text2, parsed2,
          \* evaluate
          knowledge_label, rows, preds, data, idx, matched, total, correct,
          f1s, outcome, report,
          \* run
          args, output_file, old_file, completed_ids, pending_rows,
          output_records, results, written, returned

extractorVars == <<raw_text, parsed, raw_text2, parsed2>>

evaluateVars == <<knowledge_label, rows, preds, data, idx, matched, total,
                  correct, f1s, outcome, report>>

runVars == <<args, output_file, old_file, completed_ids, pending_rows,
             output_records, results, written, returned>>

vars == <<question_type, history_label, pc, extractorVars, evaluateVars,
          runVars>>

----------------------------------------------------------------------------
(* Python values *)

None == [t |-> "None", v |-> <<>>]
PyInt(s) == [t |-> "int", v |-> s]
PyBool(b) == [t |-> "bool", v |-> b]
PyList(l) == [t |-> "list", v |-> l]
PyStr(s) == [t |-> "str", v |-> s]
Raised(e) == [t |-> "raise", v |-> e]

PyEq(a, b) == a.t = b.t /\ a.v = b.v

----------------------------------------------------------------------------
(* mapping.py: the question types *)

COUNT_FREQUENCY_TOOL == "Count Frequency(Tool)"
FIND_DUPLICATES_TOOL == "Find Duplicates(Tool)"
FIND_TARGET_OFFSETS_TOOL == "Find Target Offsets(Tool)"
COUNT_CORRECTNESS_ENV == "Count Correctness(Env)"
COUNT_FREQUENCY_ENV == "Count Frequency(Env)"
FIND_ROUND_LARGEST_VALUE_ENV == "Find Round with Largest Value(Env)"
WEIGHTED_SUMMATION_ENV == "Weighted Summation(Env)"
INTERSECTION == "Intersection"

QUESTION_TYPES ==
  {COUNT_FREQUENCY_TOOL, FIND_DUPLICATES_TOOL, FIND_TARGET_OFFSETS_TOOL,
   COUNT_CORRECTNESS_ENV, COUNT_FREQUENCY_ENV, FIND_ROUND_LARGEST_VALUE_ENV,
   WEIGHTED_SUMMATION_ENV, INTERSECTION}

HISTORY_TYPE_LABELS == {"Concise-Response", "Verbose-Response"}

----------------------------------------------------------------------------
(* characters *)

Digits == {"0", "1", "2", "3", "4", "5", "6", "7", "8", "9"}
LowerLetters == {"a", "b", "c", "d", "e", "f", "g", "h", "i", "l", "n", "o",
                 "p", "r", "s", "t", "u", "y"}
UpperLetters == {"A", "B", "D", "F", "N", "O", "T"}
OpenTags == {"<answer>", "<Answer>", "<ANSWER>"}
CloseTags == {"</answer>", "</Answer>", "</ANSWER>"}

\* \d, \w and \s of the re module
IsDigit(c) == c \in Digits
IsWord(c) == c \in Digits \cup LowerLetters \cup UpperLetters \cup {"_"}
IsSpace(c) == c \in {" ", "\n", "\t"}

\* str.lower() on one character
LowerChar(c) ==
  CASE c = "A" -> "a" [] c = "B" -> "b" [] c = "D" -> "d" [] c = "F" -> "f"
    [] c = "N" -> "n" [] c = "O" -> "o" [] c = "T" -> "t"
    [] c \in OpenTags -> "<answer>" [] c \in CloseTags -> "</answer>"
    [] OTHER -> c

Range(s) == {s[i] : i \in 1..Len(s)}

\* a function over 1..n as an evaluated tuple
AsSeq(f) == f \o <<>>

Lower(s) == AsSeq([i \in 1..Len(s) |-> LowerChar(s[i])])

\* the least element of a non-empty set of integers
Least(J) == CHOOSE j \in J : \A k \in J : j <= k

\* index of the first element of s at or after i that lies in S; 0 if none
FirstIn(s, S, i) ==
  LET J == {j \in i..Len(s) : s[j] \in S}
  IN IF J = {} THEN 0 ELSE Least(J)

\* index of the first element of s at or after i that is not white space
RECURSIVE FirstNonSpace(_, _)
FirstNonSpace(s, i) ==
  IF i > Len(s) THEN 0
  ELSE IF ~IsSpace(s[i]) THEN i ELSE FirstNonSpace(s, i + 1)

RECURSIVE LastNonSpace(_, _)
LastNonSpace(s, i) ==
  IF i < 1 THEN 0
  ELSE IF ~IsSpace(s[i]) THEN i ELSE LastNonSpace(s, i - 1)

\* str.strip()
Strip(s) ==
  LET a == FirstNonSpace(s, 1)
  IN IF a = 0 THEN <<>> ELSE SubSeq(s, a, LastNonSpace(s, Len(s)))

\* s[i..] starts with the sequence k
StartsAt(s, k, i) ==
  /\ i + Len(k) - 1 <= Len(s)
  /\ \A j \in 1..Len(k) : s[i + j - 1] = k[j]

----------------------------------------------------------------------------
(* question_logic.py: _extract_answer_tag *)

\* re.findall(r"<answer>(.*?)</answer>", text, DOTALL | IGNORECASE), from i
RECURSIVE FindAllAnswer(_, _)
FindAllAnswer(text, i) ==
  LET o == FirstIn(text, OpenTags, i)
  IN IF o = 0 THEN <<>>
     ELSE LET c == FirstIn(text, CloseTags, o + 1)
          IN IF c = 0 THEN <<>>
             ELSE <<SubSeq(text, o + 1, c - 1)>> \o FindAllAnswer(text, c + 1)

\* as _extract_answer_tag, with matches[0] for matches[-1]
_extract_first_answer_tag(text) ==
  IF text = <<>> THEN None
  ELSE LET matches == FindAllAnswer(text, 1)
       IN IF matches = <<>> THEN None ELSE PyStr(Strip(matches[1]))

\* the stripped content of the last span, or None
_extract_answer_tag(text) ==
  IF text = <<>> THEN None
  ELSE LET matches == FindAllAnswer(text, 1)
       IN IF matches = <<>> THEN None
          ELSE PyStr(Strip(matches[Len(matches)]))

----------------------------------------------------------------------------
(* Python float() and int() on a decimal spelling.                         *)
(* A natural number is the sequence of its decimal digits (0..9), most     *)
(* significant first; a bit string is a sequence over {0, 1}.              *)

DigitChars == <<"0", "1", "2", "3", "4", "5", "6", "7", "8", "9">>
DigitVal(c) == (CHOOSE n \in 1..10 : DigitChars[n] = c) - 1
DigitsOf(s) == AsSeq([i \in 1..Len(s) |-> DigitVal(s[i])])
CharsOf(d) == AsSeq([i \in 1..Len(d) |-> DigitChars[d[i] + 1]])

IsZero(d) == \A i \in 1..Len(d) : d[i] = 0

RECURSIVE StripZeros(_)
StripZeros(d) ==
  IF Len(d) <= 1 THEN (IF d = <<>> THEN <<0>> ELSE d)
  ELSE IF d[1] = 0 THEN StripZeros(Tail(d)) ELSE d

\* d \div 2
Half(d) ==
  AsSeq([i \in 1..Len(d) |->
           ((IF i > 1 THEN d[i - 1] % 2 ELSE 0) * 10 + d[i]) \div 2])

\* 2 * d + b, with as many digits as d; the carry out is d[1] >= 5
DoubleLow(d, b) ==
  AsSeq([i \in 1..Len(d) |->
           (2 * d[i] + (IF i < Len(d) THEN (IF d[i + 1] >= 5 THEN 1 ELSE 0)
                        ELSE b)) % 10])

Double(d, b) ==
  IF d # <<>> /\ d[1] >= 5 THEN <<1>> \o DoubleLow(d, b) ELSE DoubleLow(d, b)

\* the binary digits of d, four to a step, with leading zeros
RECURSIVE ToNibbles(_)
ToNibbles(d) ==
  IF IsZero(d) THEN <<>>
  ELSE LET h1 == Half(d)
           h2 == Half(h1)
           h3 == Half(h2)
       IN ToNibbles(Half(h3)) \o
            <<h3[Len(d)] % 2, h2[Len(d)] % 2, h1[Len(d)] % 2, d[Len(d)] % 2>>

\* b without its leading zeros
Trimmed(b) ==
  LET ones == {i \in 1..Len(b) : b[i] = 1}
  IN IF ones = {} THEN <<>> ELSE SubSeq(b, Least(ones), Len(b))

ToBits(d) == Trimmed(ToNibbles(d))

\* acc shifted left by the bits i..j
Shifted(acc, bits, i, j) ==
  LET a1 == Double(acc, bits[i])
      a2 == IF i + 1 <= j THEN Double(a1, bits[i + 1]) ELSE a1
      a3 == IF i + 2 <= j THEN Double(a2, bits[i + 2]) ELSE a2
  IN IF i + 3 <= j THEN Double(a3, bits[i + 3]) ELSE a3

RECURSIVE FromBitsAcc(_, _, _)
FromBitsAcc(bits, i, acc) ==
  IF i > Len(bits) \/ Len(acc) = 0 THEN acc
  ELSE FromBitsAcc(bits, i + 4, Shifted(acc, bits, i, Len(bits)))

FromBits(bits) == StripZeros(FromBitsAcc(bits, 1, <<0>>))

\* bits + 1
RECURSIVE IncBits(_)
IncBits(bits) ==
  IF bits = <<>> THEN <<1>>
  ELSE IF bits[Len(bits)] = 0 THEN SubSeq(bits, 1, Len(bits) - 1) \o <<1>>
       ELSE IncBits(SubSeq(bits, 1, Len(bits) - 1)) \o <<0>>

\* the first k bits of the binary expansion of the fraction 0.f
FracBit(f) == IF f # <<>> /\ f[1] >= 5 THEN 1 ELSE 0

RECURSIVE FracBits(_, _)
FracBits(f, k) ==
  IF k = 0 THEN <<>>
  ELSE IF k < 4 THEN <<FracBit(f)>> \o FracBits(DoubleLow(f, 0), k - 1)
  ELSE LET f1 == DoubleLow(f, 0)
           f2 == DoubleLow(f1, 0)
           f3 == DoubleLow(f2, 0)
       IN <<FracBit(f), FracBit(f1), FracBit(f2), FracBit(f3)>>
            \o FracBits(DoubleLow(f3, 0), k - 4)

\* what is left of 0.f after its first k bits
RECURSIVE FracRest(_, _)
FracRest(f, k) ==
  IF k = 0 \/ Len(f) = 0 THEN f
  ELSE IF k < 4 THEN FracRest(DoubleLow(f, 0), k - 1)
  ELSE FracRest(DoubleLow(DoubleLow(DoubleLow(DoubleLow(f, 0), 0), 0), 0), k - 4)

\* IEEE 754 binary64, the C double behind Python's float
DBL_MANT_DIG == 53
DBL_MAX_EXP == 1024
DBL_MAX_10_EXP == 308

Zeros(n) == AsSeq([i \in 1..n |-> 0])

\* the integer of the bits of a double, or inf past the largest exponent
Finite(rounded) ==
  IF Len(rounded) > DBL_MAX_EXP THEN [inf |-> TRUE, d |-> <<>>]
  ELSE [inf |-> FALSE, d |-> FromBits(rounded)]

\* the integer bits.fpart rounded to DBL_MANT_DIG significant bits, ties to
\* even, and truncated to an integer
Rounded(bits, fpart) ==
  LET n == Len(bits)
  IN IF n >= DBL_MANT_DIG
     THEN LET mant == SubSeq(bits, 1, DBL_MANT_DIG)
              rest == SubSeq(bits, DBL_MANT_DIG + 1, n)
              guard == IF rest # <<>> THEN rest[1] = 1
                       ELSE FracBits(fpart, 1)[1] = 1
              sticky == IF rest # <<>>
                        THEN ~IsZero(Tail(rest)) \/ ~IsZero(fpart)
                        ELSE ~IsZero(FracRest(fpart, 1))
              up == guard /\ (sticky \/ mant[DBL_MANT_DIG] = 1)
          IN Finite((IF up THEN IncBits(mant) ELSE mant)
                      \o Zeros(n - DBL_MANT_DIG))
     ELSE LET k == DBL_MANT_DIG + 1 - n
              fb == FracBits(fpart, k)
              carry == \A i \in 1..k : fb[i] = 1
          IN Finite(IF carry THEN IncBits(bits) ELSE bits)

\* int(float(x)) for x = ipart.fpart >= 0 (digit sequences): the digits of the
\* result, with inf set when float(x) is infinite.  float() rounds to the nearest
\* double, ties to even; int() truncates.
IntOfFloatAbs(ipart, fpart) ==
  IF Len(StripZeros(ipart)) > DBL_MAX_10_EXP + 1 THEN [inf |-> TRUE, d |-> <<>>]
  ELSE Rounded(ToBits(ipart), fpart)

\* the Python int of a magnitude and its sign, or the OverflowError of int(inf)
Signed(neg, mag) ==
  IF mag.inf THEN Raised("OverflowError")
  ELSE IF neg /\ mag.d # <<0>> THEN PyInt(<<"-">> \o CharsOf(mag.d))
       ELSE PyInt(CharsOf(mag.d))

\* body is \d+(\.\d+)? with its period at dot (0: none)
Magnitude(body, dot) ==
  IntOfFloatAbs(
    DigitsOf(IF dot = 0 THEN body ELSE SubSeq(body, 1, dot - 1)),
    IF dot = 0 THEN <<>> ELSE DigitsOf(SubSeq(body, dot + 1, Len(body))))

\* int(float(clean)) for clean matching -?\d+(\.\d+)? : a Python int, or
\* OverflowError ("cannot convert float infinity to integer")
IntOfFloat(clean) ==
  LET neg == clean[1] = "-"
      body == IF neg THEN Tail(clean) ELSE clean
  IN Signed(neg, Magnitude(body, FirstIn(body, {"."}, 1)))

----------------------------------------------------------------------------
(* question_logic.py: parse_number *)

\* the last index of the run of elements of S that starts at i (i - 1 if none)
RunEnd(s, S, i) ==
  LET J == {j \in i..Len(s) : s[j] \notin S}
  IN IF i > Len(s) THEN i - 1 ELSE IF J = {} THEN Len(s) ELSE Least(J) - 1

\* where the match of -?\d[\d,]*(?:\.\d+)? at i ends (0: no match at i);
\* with frac = FALSE the pattern is -?\d[\d,]*
NumberMatchEnd(s, i, frac) ==
  LET j == IF s[i] = "-" THEN i + 1 ELSE i
  IN IF j > Len(s) \/ ~IsDigit(s[j]) THEN 0
     ELSE LET e == RunEnd(s, Digits \cup {","}, j + 1)
          IN IF frac /\ e + 2 <= Len(s) /\ s[e + 1] = "." /\ IsDigit(s[e + 2])
             THEN RunEnd(s, Digits, e + 2)
             ELSE e

\* re.findall of the number pattern, from i
RECURSIVE FindAllNumber(_, _, _)
FindAllNumber(s, i, frac) ==
  IF i > Len(s) THEN <<>>
  ELSE LET e == NumberMatchEnd(s, i, frac)
       IN IF e = 0 THEN FindAllNumber(s, i + 1, frac)
          ELSE <<SubSeq(s, i, e)>> \o FindAllNumber(s, e + 1, frac)

\* re.search of the number pattern: <<match>>, or <<>> when there is none
RECURSIVE SearchNumber(_, _, _)
SearchNumber(s, i, frac) ==
  IF i > Len(s) THEN <<>>
  ELSE LET e == NumberMatchEnd(s, i, frac)
       IN IF e = 0 THEN SearchNumber(s, i + 1, frac) ELSE <<SubSeq(s, i, e)>>

\* candidate.replace(",", "")
NotComma(c) == c # ","
RemoveCommas(s) == SelectSeq(s, NotComma)

\* float() accepts every comma-free match of the pattern, so the loop over
\* reversed(matches) ends at its first candidate: with the int, or with the
\* OverflowError of int(inf), which the except clause does not catch
parse_number(text) ==
  IF text = <<>> THEN None
  ELSE LET inner == _extract_answer_tag(text)
       IN IF inner.t = "None" THEN None
          ELSE LET matches == FindAllNumber(inner.v, 1, TRUE)
               IN IF matches = <<>> THEN None
                  ELSE IntOfFloat(RemoveCommas(matches[Len(matches)]))

----------------------------------------------------------------------------
(* question_logic.py: parse_boolean *)

NegKeywords ==
  {<<"n", "o">>, <<"f", "a", "l", "s", "e">>, <<"n", "o", "t">>,
   <<"d", "o", "e", "s", "n", "'", "t">>,
   <<"d", "o", "e", "s", " ", "n", "o", "t">>,
   <<"n", "o", "n", "e">>, <<"n", "e", "i", "t", "h", "e", "r">>}

PosKeywords ==
  {<<"y", "e", "s">>, <<"t", "r", "u", "e">>,
   <<"c", "o", "n", "t", "a", "i", "n">>,
   <<"c", "o", "n", "t", "a", "i", "n", "s">>,
   <<"a", "p", "p", "e", "a", "r">>, <<"a", "p", "p", "e", "a", "r", "s">>,
   <<"d", "o", "e", "s">>, <<"b", "o", "t", "h">>}

\* \b just before index i (1 <= i <= Len(s) + 1)
WordBoundary(s, i) ==
  (i > 1 /\ IsWord(s[i - 1])) # (i <= Len(s) /\ IsWord(s[i]))

\* re.search(r"\b(k1|k2|...)\b", s) finds a match
SearchWord(s, K) ==
  \E i \in 1..Len(s) : \E k \in K :
     StartsAt(s, k, i) /\ WordBoundary(s, i) /\ WordBoundary(s, i + Len(k))

\* a Python int is > 0
IsPositive(n) == n.v[1] # "-" /\ n.v # <<"0">>

\* int(float(...)) > 0, or the exception that int(float(...)) raised
Positive(n) == IF n.t = "raise" THEN n ELSE PyBool(IsPositive(n))

\* as parse_boolean, with the affirmation search before the negation search
parse_boolean_affirmation_first(text) ==
  IF text = <<>> THEN None
  ELSE LET inner == _extract_answer_tag(text)
       IN IF inner.t = "None" THEN None
          ELSE LET text_lower == Lower(inner.v)
               IN IF SearchWord(text_lower, PosKeywords) THEN PyBool(TRUE)
                  ELSE IF SearchWord(text_lower, NegKeywords) THEN PyBool(FALSE)
                  ELSE LET match == SearchNumber(inner.v, 1, FALSE)
                       IN IF match = <<>> THEN None
                          ELSE Positive(IntOfFloat(RemoveCommas(match[1])))

parse_boolean(text) ==
  IF text = <<>> THEN None
  ELSE LET inner == _extract_answer_tag(text)
       IN IF inner.t = "None" THEN None
          ELSE LET text_lower == Lower(inner.v)
               IN IF SearchWord(text_lower, NegKeywords) THEN PyBool(FALSE)
                  ELSE IF SearchWord(text_lower, PosKeywords) THEN PyBool(TRUE)
                  ELSE LET match == SearchNumber(inner.v, 1, FALSE)
                       IN IF match = <<>> THEN None
                          ELSE Positive(IntOfFloat(RemoveCommas(match[1])))

----------------------------------------------------------------------------
(* ast.literal_eval, as parse_pair_list and parse_intersection_list call   *)
(* it: on a stripped text that starts with "[" and ends with "]".          *)
(*                                                                         *)
(* The outcome is one of                                                   *)
(*   "ok"          the value (list, or the tuple of a top-level comma)     *)
(*   "error"       ValueError or SyntaxError, which both callers catch     *)
(*   "TypeError"   an unhashable dict key or set element: not caught       *)
(*   "unmodelled"  the text uses Python syntax this model does not cover   *)
(*                 (floats, string prefixes, triple quotes, subscripts,    *)
(*                 sets of several elements, ...); the specification draws *)
(*                 no such text                                            *)

Tok(k, s) == [k |-> k, s |-> s]

Punct == {"[", "]", "{", "}", ":", ",", "-"}
WordChars == Digits \cup LowerLetters \cup UpperLetters \cup {"_"}
\* characters that are tokens of no literal: they make an operator or an error
OtherChars == {";", "|"} \cup OpenTags \cup CloseTags

\* the tokens of s from i on; a token "syntax" or "unmodelled" ends the list
RECURSIVE Lex(_, _)
Lex(s, i) ==
  IF i > Len(s) THEN <<>>
  ELSE LET c == s[i]
       IN CASE c = "\n" -> <<Tok("nl", <<>>)>> \o Lex(s, i + 1)
            [] c \in {" ", "\t"} -> Lex(s, i + 1)
            [] c = "'" ->
                 IF StartsAt(s, <<"'", "'", "'">>, i)
                 THEN <<Tok("unmodelled", <<>>)>>
                 ELSE LET j == FirstIn(s, {"'", "\n"}, i + 1)
                      IN IF j = 0 \/ s[j] = "\n" THEN <<Tok("syntax", <<>>)>>
                         ELSE <<Tok("str", SubSeq(s, i + 1, j - 1))>>
                                \o Lex(s, j + 1)
            [] c \in Digits ->
                 LET e == RunEnd(s, Digits, i)
                     d == DigitsOf(SubSeq(s, i, e))
                 IN IF e < Len(s) /\ (s[e + 1] \in WordChars \/ s[e + 1] = ".")
                    THEN <<Tok("unmodelled", <<>>)>>
                    ELSE IF d[1] = 0 /\ ~IsZero(d) THEN <<Tok("syntax", <<>>)>>
                    ELSE <<Tok("int", CharsOf(StripZeros(d)))>> \o Lex(s, e + 1)
            [] c \in WordChars \ Digits ->
                 LET e == RunEnd(s, WordChars, i)
                 IN IF e < Len(s) /\ s[e + 1] = "'"
                    THEN <<Tok("unmodelled", <<>>)>>
                    ELSE IF SubSeq(s, i, e) = <<"N", "o", "n", "e">>
                    THEN <<Tok("none", <<>>)>> \o Lex(s, e + 1)
                    ELSE <<Tok("other", <<>>)>> \o Lex(s, e + 1)
            [] c \in Punct -> <<Tok(c, <<>>)>> \o Lex(s, i + 1)
            [] c \in OtherChars -> <<Tok("other", <<>>)>> \o Lex(s, i + 1)
            [] OTHER -> <<Tok("unmodelled", <<>>)>>

HasTok(t, k) == \E i \in 1..Len(t) : t[i].k = k

\* syntax tree nodes, and the values they convert to
Node(k, s, e) == [k |-> k, s |-> s, e |-> e]

POk(v, p) == [st |-> "ok", v |-> v, p |-> p]
PErr(e) == [st |-> e, v |-> <<>>, p |-> 0]

\* the kind of token i ("eof" past the end)
K(t, i) == IF i <= Len(t) THEN t[i].k ELSE "eof"

\* inside brackets (d = 1) a line break is white space
RECURSIVE SkipNl(_, _, _)
SkipNl(t, i, d) ==
  IF d = 1 /\ i <= Len(t) /\ t[i].k = "nl" THEN SkipNl(t, i + 1, d) ELSE i

\* adjacent string literals are one string
RECURSIVE ParseStrs(_, _, _, _)
ParseStrs(t, i, d, acc) ==
  LET j == SkipNl(t, i, d)
  IN IF K(t, j) = "str" THEN ParseStrs(t, j + 1, d, acc \o t[j].s)
     ELSE POk(Node("str", acc, <<>>), i)

RECURSIVE ParseExpr(_, _, _)
RECURSIVE ParseFactor(_, _, _)
RECURSIVE ParseAtom(_, _, _)
RECURSIVE ParseSeq(_, _, _)
RECURSIVE ParseSeqRest(_, _, _, _)
RECURSIVE ParseDictRest(_, _, _)

\* the node of kind k around the elements that r parsed
Around(r, k) == IF r.st # "ok" THEN r ELSE POk(Node(k, <<>>, r.v), r.p)

\* the right operand r2 of a binary minus makes a BinOp node
BinOp(r2) ==
  IF r2.st # "ok" THEN r2 ELSE POk(Node("binop", <<>>, <<>>), r2.p)

\* what follows the first factor r of an expression
ExprTail(t, d, r) ==
  IF r.st # "ok" THEN r
  ELSE LET j == SkipNl(t, r.p, d)
       IN IF K(t, j) = "-" THEN BinOp(ParseExpr(t, j + 1, d)) ELSE r

\* factor ("-" factor)*
ParseExpr(t, i, d) == ExprTail(t, d, ParseFactor(t, i, d))

\* the operand r of a unary minus
Negated(r) ==
  IF r.st # "ok" THEN r ELSE POk(Node("neg", <<>>, <<r.v>>), r.p)

\* an atom followed by "[" is a subscript
NoSubscript(t, d, r) ==
  IF r.st = "ok" /\ K(t, SkipNl(t, r.p, d)) = "[" THEN PErr("unmodelled")
  ELSE r

\* "-" factor | atom
ParseFactor(t, i, d) ==
  LET j == SkipNl(t, i, d)
  IN IF K(t, j) = "-" THEN Negated(ParseFactor(t, j + 1, d))
     ELSE NoSubscript(t, d, ParseAtom(t, j, d))

\* the value rv of the key rk joins the items acc of a dict display
DictValue(t, acc, rk, rv) ==
  IF rv.st # "ok" THEN rv
  ELSE ParseDictRest(t, rv.p, Append(acc, <<rk.v, rv.v>>))

\* what follows the key rk of a dict display
DictKey(t, acc, rk) ==
  IF rk.st # "ok" THEN rk
  ELSE LET c == SkipNl(t, rk.p, 1)
       IN IF K(t, c) # ":" THEN PErr("syntax")
          ELSE DictValue(t, acc, rk, ParseExpr(t, c + 1, 1))

\* what follows the first expression r after "{": a dict or a set display
BraceTail(t, r) ==
  IF r.st # "ok" THEN r
  ELSE LET c == SkipNl(t, r.p, 1)
       IN IF K(t, c) = ":" THEN DictValue(t, <<>>, r, ParseExpr(t, c + 1, 1))
          ELSE Around(ParseSeqRest(t, r.p, "}", <<r.v>>), "set")

ParseAtom(t, i, d) ==
  CASE K(t, i) = "str" -> ParseStrs(t, i, d, <<>>)
    [] K(t, i) = "int" -> POk(Node("int", t[i].s, <<>>), i + 1)
    [] K(t, i) = "none" -> POk(Node("none", <<>>, <<>>), i + 1)
    [] K(t, i) = "[" -> Around(ParseSeq(t, i + 1, "]"), "list")
    [] K(t, i) = "{" ->
         LET j == SkipNl(t, i + 1, 1)
         IN IF K(t, j) = "}" THEN POk(Node("dict", <<>>, <<>>), j + 1)
            ELSE BraceTail(t, ParseExpr(t, j, 1))
    [] OTHER -> PErr("syntax")

\* the element r joins the elements acc of a display
SeqElement(t, close, acc, r) ==
  IF r.st # "ok" THEN r ELSE ParseSeqRest(t, r.p, close, Append(acc, r.v))

\* the elements up to the closing bracket: <<nodes>>, and the index after it
ParseSeq(t, i, close) ==
  LET j == SkipNl(t, i, 1)
  IN IF K(t, j) = close THEN POk(<<>>, j + 1)
     ELSE SeqElement(t, close, <<>>, ParseExpr(t, j, 1))

ParseSeqRest(t, i, close, acc) ==
  LET j == SkipNl(t, i, 1)
  IN IF K(t, j) = close THEN POk(acc, j + 1)
     ELSE IF K(t, j) # "," THEN PErr("syntax")
     ELSE LET j2 == SkipNl(t, j + 1, 1)
          IN IF K(t, j2) = close THEN POk(acc, j2 + 1)
             ELSE SeqElement(t, close, acc, ParseExpr(t, j2, 1))

ParseDictRest(t, i, acc) ==
  LET j == SkipNl(t, i, 1)
  IN IF K(t, j) = "}" THEN POk(Node("dict", <<>>, acc), j + 1)
     ELSE IF K(t, j) # "," THEN PErr("syntax")
     ELSE LET j2 == SkipNl(t, j + 1, 1)
          IN IF K(t, j2) = "}" THEN POk(Node("dict", <<>>, acc), j2 + 1)
             ELSE DictKey(t, acc, ParseExpr(t, j2, 1))

RECURSIVE ParseTopRest(_, _, _)

\* the expression r joins the elements acc of a top-level tuple
TopElement(t, acc, r) ==
  IF r.st # "ok" THEN r ELSE ParseTopRest(t, r.p, Append(acc, r.v))

\* expr ("," expr)* [","] at the top level: a comma makes a tuple
ParseTopRest(t, i, acc) ==
  IF K(t, i) = "eof" THEN POk(Node("tuple", <<>>, acc), i)
  ELSE IF K(t, i) # "," THEN PErr("syntax")
  ELSE IF K(t, i + 1) = "eof" THEN POk(Node("tuple", <<>>, acc), i + 1)
  ELSE TopElement(t, acc, ParseExpr(t, i + 1, 0))

\* what follows the first expression r of the text
TopTail(t, r) ==
  IF r.st # "ok" THEN r
  ELSE IF K(t, r.p) = "eof" THEN r
  ELSE ParseTopRest(t, r.p, <<r.v>>)

ParseTop(t) == TopTail(t, ParseExpr(t, 1, 0))

COk(v) == [st |-> "ok", v |-> v]
CErr(e) == [st |-> e, v |-> <<>>]

\* list, dict and set are unhashable
Unhashable(v) == v.k \in {"list", "dict", "set"}

\* equality of two hashable values (str, int, None)
SameKey(a, b) == a.k = b.k /\ a.s = b.s

\* d[key] = val on the item list of a dict
SetItem(items, key, val) ==
  IF \E i \in 1..Len(items) : SameKey(items[i][1], key)
  THEN AsSeq([i \in 1..Len(items) |->
                IF SameKey(items[i][1], key) THEN <<items[i][1], val>>
                ELSE items[i]])
  ELSE Append(items, <<key, val>>)

RECURSIVE Convert(_)
RECURSIVE ConvertSeq(_, _, _)
RECURSIVE ConvertDict(_, _, _)
RECURSIVE ConvertSet(_, _, _)

\* the value of kind k of the converted elements r
Collected(r, k) == IF r.st # "ok" THEN r ELSE COk(Node(k, <<>>, r.v))

\* literal_eval's _convert: left to right, the first error wins
Convert(n) ==
  CASE n.k \in {"str", "int", "none"} -> COk(n)
    [] n.k = "neg" ->
         IF n.e[1].k # "int" THEN CErr("ValueError")
         ELSE IF n.e[1].s = <<"0">> THEN COk(n.e[1])
         ELSE COk(Node("int", <<"-">> \o n.e[1].s, <<>>))
    [] n.k = "binop" -> CErr("ValueError")
    [] n.k \in {"list", "tuple"} -> Collected(ConvertSeq(n.e, 1, <<>>), n.k)
    [] n.k = "dict" -> ConvertDict(n.e, 1, <<>>)
    [] n.k = "set" -> ConvertSet(n.e, 1, <<>>)

\* the converted element r joins acc
SeqItem(nodes, i, acc, r) ==
  IF r.st # "ok" THEN r ELSE ConvertSeq(nodes, i + 1, Append(acc, r.v))

ConvertSeq(nodes, i, acc) ==
  IF i > Len(nodes) THEN COk(acc)
  ELSE SeqItem(nodes, i, acc, Convert(nodes[i]))

\* the converted key rk and value rv join the dict acc
DictItem(pairs, i, acc, rk, rv) ==
  IF rv.st # "ok" THEN rv
  ELSE IF Unhashable(rk.v) THEN CErr("TypeError")
  ELSE ConvertDict(pairs, i + 1, SetItem(acc, rk.v, rv.v))

DictItemKey(pairs, i, acc, rk) ==
  IF rk.st # "ok" THEN rk
  ELSE DictItem(pairs, i, acc, rk, Convert(pairs[i][2]))

\* dict(zip(map(_convert, keys), map(_convert, values)))
ConvertDict(pairs, i, acc) ==
  IF i > Len(pairs) THEN COk(Node("dict", <<>>, acc))
  ELSE DictItemKey(pairs, i, acc, Convert(pairs[i][1]))

\* the converted element r joins the set acc
SetElement(nodes, i, acc, r) ==
  IF r.st # "ok" THEN r
  ELSE IF Unhashable(r.v) THEN CErr("TypeError")
  ELSE IF \E j \in 1..Len(acc) : SameKey(acc[j], r.v)
  THEN ConvertSet(nodes, i + 1, acc)
  ELSE ConvertSet(nodes, i + 1, Append(acc, r.v))

\* set(map(_convert, elts)); the order in which str() lists a set of several
\* elements is that of their hashes, which this model does not cover
ConvertSet(nodes, i, acc) ==
  IF i > Len(nodes)
  THEN IF Len(acc) > 1 THEN CErr("unmodelled") ELSE COk(Node("set", <<>>, acc))
  ELSE SetElement(nodes, i, acc, Convert(nodes[i]))

RECURSIVE Repr(_)
RECURSIVE ReprJoin(_, _)
RECURSIVE ReprItems(_, _)

\* repr() of a converted value
Repr(v) ==
  CASE v.k = "str" -> <<"'">> \o v.s \o <<"'">>
    [] v.k = "int" -> v.s
    [] v.k = "none" -> <<"N", "o", "n", "e">>
    [] v.k = "list" -> <<"[">> \o ReprJoin(v.e, 1) \o <<"]">>
    [] v.k = "set" -> <<"{">> \o ReprJoin(v.e, 1) \o <<"}">>
    [] v.k = "dict" -> <<"{">> \o ReprItems(v.e, 1) \o <<"}">>

ReprJoin(e, i) ==
  IF i > Len(e) THEN <<>>
  ELSE (IF i > 1 THEN <<",", " ">> ELSE <<>>) \o Repr(e[i]) \o ReprJoin(e, i + 1)

ReprItems(e, i) ==
  IF i > Len(e) THEN <<>>
  ELSE (IF i > 1 THEN <<",", " ">> ELSE <<>>)
         \o Repr(e[i][1]) \o <<":", " ">> \o Repr(e[i][2]) \o ReprItems(e, i + 1)

\* str() of a converted value
Str(v) == IF v.k = "str" THEN v.s ELSE Repr(v)

\* a ValueError of _convert is caught by both callers
Converted(c) == IF c.st = "ValueError" THEN CErr("error") ELSE c

\* the value of the syntax tree r, or the SyntaxError of the parser
Evaluated(r) ==
  IF r.st = "syntax" THEN CErr("error")
  ELSE IF r.st # "ok" THEN CErr(r.st)
  ELSE Converted(Convert(r.v))

\* literal_eval on the tokens t
EvalTokens(t) ==
  IF HasTok(t, "unmodelled") THEN CErr("unmodelled")
  ELSE IF HasTok(t, "syntax") THEN CErr("error")
  ELSE IF HasTok(t, "other")
  THEN (IF HasTok(t, "{") THEN CErr("unmodelled") ELSE CErr("error"))
  ELSE Evaluated(ParseTop(t))

literal_eval(text) == EvalTokens(Lex(text, 1))

\* text.startswith("[") and text.endswith("]")
Bracketed(text) == text # <<>> /\ text[1] = "[" /\ text[Len(text)] = "]"

\* [str(x).strip() for x in arr if str(x).strip()]
RECURSIVE Cleaned(_, _)
Cleaned(arr, i) ==
  IF i > Len(arr) THEN <<>>
  ELSE LET x == Strip(Str(arr[i]))
       IN (IF x # <<>> THEN <<x>> ELSE <<>>) \o Cleaned(arr, i + 1)

\* the try block of the list parsers: literal_eval on a bracketed text
TryLiteral(txt) == IF Bracketed(txt) THEN literal_eval(txt) ELSE CErr("error")

----------------------------------------------------------------------------
(* question_logic.py: parse_pair_list, parse_intersection_list,            *)
(* parse_final_guess                                                       *)

\* re.sub(r"(?i)\band\b", ",", s), from i
RECURSIVE SubAnd(_, _)
SubAnd(s, i) ==
  IF i > Len(s) THEN <<>>
  ELSE IF /\ i + 2 <= Len(s)
          /\ LowerChar(s[i]) = "a" /\ LowerChar(s[i + 1]) = "n"
          /\ LowerChar(s[i + 2]) = "d"
          /\ WordBoundary(s, i) /\ WordBoundary(s, i + 3)
       THEN <<",">> \o SubAnd(s, i + 3)
       ELSE <<s[i]>> \o SubAnd(s, i + 1)

\* re.sub(r"[\n;|]", ",", s)
SubSeparators(s) ==
  AsSeq([i \in 1..Len(s) |-> IF s[i] \in {"\n", ";", "|"} THEN "," ELSE s[i]])

\* s.split(","), from i
RECURSIVE Split(_, _)
Split(s, i) ==
  LET c == FirstIn(s, {","}, i)
  IN IF c = 0 THEN <<SubSeq(s, i, Len(s))>>
     ELSE <<SubSeq(s, i, c - 1)>> \o Split(s, c + 1)

\* re.sub(r"^\d+\.?\s*", "", chunk)
StripNumbering(chunk) ==
  IF chunk = <<>> \/ ~IsDigit(chunk[1]) THEN chunk
  ELSE LET e == RunEnd(chunk, Digits, 1)
           e2 == IF e < Len(chunk) /\ chunk[e + 1] = "." THEN e + 1 ELSE e
           e3 == RunEnd(chunk, {" ", "\n", "\t"}, e2 + 1)
       IN SubSeq(chunk, e3 + 1, Len(chunk))

\* the items of the chunks, empty ones dropped
RECURSIVE Items(_, _, _)
Items(chunks, i, numbered) ==
  IF i > Len(chunks) THEN <<>>
  ELSE LET item == Strip(IF numbered THEN StripNumbering(chunks[i]) ELSE chunks[i])
       IN (IF item # <<>> THEN <<item>> ELSE <<>>) \o Items(chunks, i + 1, numbered)

Unmodelled == [t |-> "unmodelled", v |-> <<>>]

\* the fragments of the separator-normalized text
Tokens(txt, numbered) ==
  Items(Split(SubSeparators(SubAnd(txt, 1)), 1), 1, numbered)

\* the items of a literal list; <<>> when lit is no list
CleanedList(lit) ==
  IF lit.st = "ok" /\ lit.v.k = "list" THEN Cleaned(lit.v.e, 1) ELSE <<>>

\* as PairList, with "return tokens" for "return tokens if tokens else None"
PairListReturnTokens(lit, tokens) ==
  LET cleaned == CleanedList(lit)
  IN IF lit.st = "TypeError" THEN Raised("TypeError")
     ELSE IF lit.st = "unmodelled" THEN Unmodelled
     ELSE IF Len(cleaned) >= 2 THEN PyList(cleaned)
     ELSE PyList(tokens)

\* as parse_pair_list, with "return tokens" for "return tokens if tokens else None"
parse_pair_list_return_tokens(text) ==
  IF text = <<>> THEN None
  ELSE LET inner == _extract_answer_tag(text)
       IN IF inner.t = "None" THEN None
          ELSE PairListReturnTokens(TryLiteral(Strip(inner.v)),
                                    Tokens(Strip(inner.v), TRUE))

\* lines 80-98: lit is the outcome of the try block, tokens the fragments
\* of the text
PairList(lit, tokens) ==
  LET cleaned == CleanedList(lit)
  IN IF lit.st = "TypeError" THEN Raised("TypeError")
     ELSE IF lit.st = "unmodelled" THEN Unmodelled
     ELSE IF Len(cleaned) >= 2 THEN PyList(cleaned)
     ELSE IF tokens # <<>> THEN PyList(tokens) ELSE None

parse_pair_list(text) ==
  IF text = <<>> THEN None
  ELSE LET inner == _extract_answer_tag(text)
       IN IF inner.t = "None" THEN None
          ELSE PairList(TryLiteral(Strip(inner.v)),
                        Tokens(Strip(inner.v), TRUE))

\* lines 108-122: lit is the outcome of the try block
IntersectionList(txt, lit) ==
  IF txt = <<>> THEN PyList(<<>>)
  ELSE IF lit.st = "TypeError" THEN Raised("TypeError")
  ELSE IF lit.st = "unmodelled" THEN Unmodelled
  ELSE IF lit.st = "ok" /\ lit.v.k = "list" THEN PyList(Cleaned(lit.v.e, 1))
  ELSE PyList(Tokens(txt, FALSE))

parse_intersection_list(text) ==
  IF text = <<>> THEN PyList(<<>>)
  ELSE LET inner == _extract_answer_tag(text)
       IN IF inner.t = "None" THEN PyList(<<>>)
          ELSE IntersectionList(Strip(inner.v), TryLiteral(Strip(inner.v)))

parse_final_guess(text) ==
  IF text = <<>> THEN None
  ELSE LET inner == _extract_answer_tag(text)
       IN IF inner.t = "None" THEN None
          ELSE IF Strip(inner.v) = <<>> THEN None ELSE PyStr(Strip(inner.v))

IntegerTypes ==
  {COUNT_FREQUENCY_TOOL, COUNT_CORRECTNESS_ENV, COUNT_FREQUENCY_ENV,
   FIND_ROUND_LARGEST_VALUE_ENV, WEIGHTED_SUMMATION_ENV}

\* <<value, parse_kind>>
parse_response(qt, hl, text) ==
  CASE qt \in IntegerTypes -> <<parse_number(text), "number">>
    [] qt = FIND_DUPLICATES_TOOL -> <<parse_boolean(text), "boolean">>
    [] qt = FIND_TARGET_OFFSETS_TOOL -> <<parse_pair_list(text), "list">>
    [] qt = INTERSECTION /\ hl = "Verbose-Response" ->
         <<parse_intersection_list(text), "intersection_list">>
    [] qt = INTERSECTION /\ hl = "Concise-Response" ->
         <<parse_final_guess(text), "final_answer">>
    [] OTHER -> <<None, "unknown">>

----------------------------------------------------------------------------
(* evaluate.py: the normalizers.  A value read from a JSONL record is None, *)
(* a bool, an int, a str or a list of str.                                  *)

KNOWLEDGE_TYPE_LABELS == {"knowledge_intensive", "knowledge_free"}

\* bool(val): the truth value of a Python value
Truthy(val) ==
  CASE val.t = "None" -> FALSE
    [] val.t = "bool" -> val.v
    [] val.t = "int" -> val.v \notin {<<"0">>, <<"-", "0">>}
    [] OTHER -> val.v # <<>>

RECURSIVE ReprStrs(_, _)
ReprStrs(l, i) ==
  IF i > Len(l) THEN <<>>
  ELSE (IF i > 1 THEN <<",", " ">> ELSE <<>>)
         \o <<"'">> \o l[i] \o <<"'">> \o ReprStrs(l, i + 1)

\* str(val)
StrOf(val) ==
  CASE val.t = "None" -> <<"N", "o", "n", "e">>
    [] val.t = "bool" -> IF val.v THEN <<"T", "r", "u", "e">>
                         ELSE <<"F", "a", "l", "s", "e">>
    [] val.t = "list" -> <<"[">> \o ReprStrs(val.v, 1) \o <<"]">>
    [] OTHER -> val.v

\* re.search(r"-?\d+(?:\.\d+)?", s), from i: <<match>>, or <<>>
RECURSIVE SearchDecimal(_, _)
SearchDecimal(s, i) ==
  IF i > Len(s) THEN <<>>
  ELSE LET j == IF s[i] = "-" THEN i + 1 ELSE i
       IN IF j > Len(s) \/ ~IsDigit(s[j]) THEN SearchDecimal(s, i + 1)
          ELSE LET e == RunEnd(s, Digits, j)
                   f == IF e + 2 <= Len(s) /\ s[e + 1] = "." /\ IsDigit(s[e + 2])
                        THEN RunEnd(s, Digits, e + 2) ELSE e
               IN <<SubSeq(s, i, f)>>

\* a bool is an int, so it is returned as it is
_to_number(val) ==
  IF val.t = "None" THEN None
  ELSE IF val.t \in {"int", "bool"} THEN val
  ELSE LET match == SearchDecimal(StrOf(val), 1)
       IN IF match = <<>> THEN None ELSE IntOfFloat(match[1])

\* a == b for two results of _to_number (True == 1, False == 0)
NumEq(a, b) ==
  LET n(x) == IF x.t = "bool" THEN (IF x.v THEN <<"1">> ELSE <<"0">>) ELSE x.v
  IN n(a) = n(b)

\* s.replace(c, "") for every c of S
Without(s, S) == SelectSeq(s, LAMBDA c : c \notin S)

\* name is a str (a sequence of characters)
_normalize_name(name, kl) ==
  IF name = <<>> THEN <<>>
  ELSE LET normalized == Lower(Strip(name))
       IN IF kl = "knowledge_free"
          THEN Without(normalized, {" ", "-", "_", "'", "\"", "."})
          ELSE Without(normalized, {" ", "-", "'", "\"", "."})

\* word in text
Contains(text, word) == \E i \in 1..Len(text) : StartsAt(text, word, i)

_normalize_boolean(val) ==
  IF val.t = "None" THEN None
  ELSE IF val.t = "bool" THEN val
  ELSE IF val.t = "int" THEN PyBool(IsPositive(val))
  ELSE LET text == Strip(Lower(StrOf(val)))
       IN IF \E w \in {<<"y", "e", "s">>, <<"t", "r", "u", "e">>, <<"1">>} :
                Contains(text, w)
          THEN PyBool(TRUE)
          ELSE IF \E w \in {<<"n", "o">>, <<"f", "a", "l", "s", "e">>, <<"0">>} :
                     Contains(text, w)
          THEN PyBool(FALSE)
          ELSE None

\* val.strip("[](){}")
StripBrackets(s) ==
  LET B == {"[", "]", "(", ")", "{", "}"}
      keep == {i \in 1..Len(s) : s[i] \notin B}
  IN IF keep = {} THEN <<>>
     ELSE SubSeq(s, Least(keep), CHOOSE j \in keep : \A k \in keep : k <= j)

\* where the delimiter [,;]|\s+and\s+ that starts at i ends (0: none starts)
DelimiterEnd(s, i) ==
  IF s[i] \in {",", ";"} THEN i
  ELSE IF ~IsSpace(s[i]) THEN 0
  ELSE LET e == RunEnd(s, {" ", "\n", "\t"}, i)
       IN IF /\ e + 4 <= Len(s)
             /\ Lower(SubSeq(s, e + 1, e + 3)) = <<"a", "n", "d">>
             /\ IsSpace(s[e + 4])
          THEN RunEnd(s, {" ", "\n", "\t"}, e + 4)
          ELSE 0

\* re.split(r"[,;]|\s+and\s+", s, flags=re.IGNORECASE): the parts from
\* `from` on, scanning at i
RECURSIVE SplitParts(_, _, _)
SplitParts(s, from, i) ==
  IF i > Len(s) THEN <<SubSeq(s, from, Len(s))>>
  ELSE LET e == DelimiterEnd(s, i)
       IN IF e = 0 THEN SplitParts(s, from, i + 1)
          ELSE <<SubSeq(s, from, i - 1)>> \o SplitParts(s, e + 1, e + 1)

_normalize_pair_list(val, kl) ==
  IF val.t = "None" THEN None
  ELSE IF val.t = "list"
  THEN PyList(AsSeq([i \in 1..Len(val.v) |->
                       _normalize_name(val.v[i], kl)]))
  ELSE IF val.t = "str"
  THEN LET parts == SplitParts(StripBrackets(val.v), 1, 1)
       IN IF Len(parts) >= 2
          THEN PyList(AsSeq([i \in 1..Len(parts) |->
                               _normalize_name(Strip(parts[i]), kl)]))
          ELSE None
  ELSE None

\* an empty prediction that equals an empty ground truth
_compare_pair_lists_empty_equal(pred, gt) ==
  IF pred = <<>> /\ gt = <<>> THEN 2
  ELSE IF pred = <<>> \/ gt = <<>> THEN 0
  ELSE IF Len(pred) = 2 /\ Len(gt) = 2 /\ pred[1] = gt[1] /\ pred[2] = gt[2]
  THEN 2
  ELSE IF Len(pred) = 1 /\ Len(gt) = 2 /\ pred[1] = gt[1] THEN 1
  ELSE 0

\* half credit for a single element that names either one of the two targets
_compare_pair_lists_any_position(pred, gt) ==
  IF pred = <<>> \/ gt = <<>> THEN 0
  ELSE IF Len(pred) = 2 /\ Len(gt) = 2 /\ pred[1] = gt[1] /\ pred[2] = gt[2]
  THEN 2
  ELSE IF Len(pred) = 1 /\ Len(gt) = 2 /\ pred[1] \in {gt[1], gt[2]} THEN 1
  ELSE 0

\* pred and gt are lists of str; the score is counted in halves (0, 1 or 2)
_compare_pair_lists(pred, gt) ==
  IF pred = <<>> \/ gt = <<>> THEN 0
  ELSE IF Len(pred) = 2 /\ Len(gt) = 2 /\ pred[1] = gt[1] /\ pred[2] = gt[2]
  THEN 2
  ELSE IF Len(pred) = 1 /\ Len(gt) = 2 /\ pred[1] = gt[1] THEN 1
  ELSE 0

\* s.split(): the words of s, from i
RECURSIVE Words(_, _)
Words(s, i) ==
  LET a == FirstNonSpace(s, i)
  IN IF a = 0 THEN <<>>
     ELSE LET e == RunEnd(s, {c \in Range(s) : ~IsSpace(c)}, a)
          IN <<SubSeq(s, a, e)>> \o Words(s, e + 1)

RECURSIVE WordsOfChunks(_, _)
WordsOfChunks(chunks, i) ==
  IF i > Len(chunks) THEN <<>>
  ELSE Words(chunks[i], 1) \o WordsOfChunks(chunks, i + 1)

\* _to_set with every element put into lower case
_to_set_casefold(val) ==
  IF val.t = "None" THEN <<>>
  ELSE IF val.t = "list"
  THEN SelectSeq(AsSeq([i \in 1..Len(val.v) |-> Lower(Strip(val.v[i]))]),
                 LAMBDA v : v # <<>>)
  ELSE IF val.t = "str"
  THEN WordsOfChunks(
         Split(AsSeq([i \in 1..Len(val.v) |->
                        IF val.v[i] = "\n" THEN "," ELSE LowerChar(val.v[i])]), 1), 1)
  ELSE <<>>

\* a list of str
_to_set(val) ==
  IF val.t = "None" THEN <<>>
  ELSE IF val.t = "list"
  THEN SelectSeq(AsSeq([i \in 1..Len(val.v) |-> Strip(val.v[i])]),
                 LAMBDA v : v # <<>>)
  ELSE IF val.t = "str"
  THEN WordsOfChunks(
         Split(AsSeq([i \in 1..Len(val.v) |->
                        IF val.v[i] = "\n" THEN "," ELSE val.v[i]]), 1), 1)
  ELSE <<>>

\* the key of a prediction record: a str, or None
_pred_key(pred) ==
  IF pred.id.t # "None" THEN PyStr(StrOf(pred.id))
  ELSE IF pred.sample_id.t # "None" /\ pred.round.t # "None"
  THEN PyStr(StrOf(pred.sample_id) \o <<"_", "r">> \o StrOf(pred.round))
  ELSE None

----------------------------------------------------------------------------
(* The raw responses the specification draws.  A response is a body, made  *)
(* of at most MaxPieces pieces of the vocabulary of its question type, put *)
(* into one of the surroundings of Framed.                                 *)

MaxPieces == 2

\* a digit string that float() reads as inf
LongDigits == AsSeq([i \in 1..(DBL_MAX_10_EXP + 2) |-> "9"])

NumberPieces ==
  {<<"7">>,
   <<"-", "3", ".", "7">>,
   <<"1", ",", "2", "3", "4">>,
   <<".", "0">>,
   <<"9", "0", "0", "7", "1", "9", "9", "2", "5", "4", "7", "4", "0", "9", "9", "3">>,
   <<"9", ",", "0", "0", "7", ",", "1", "9", "9", ",", "2", "5", "4", ",", "7", "4", "0", ",", "9", "9", "3">>,
   <<"3", ".", "9", "9", "9", "9", "9", "9", "9", "9", "9", "9", "9", "9", "9", "9", "9", "9", "9", "9", "9", "9">>,
   <<"-">>,
   LongDigits}

BooleanPieces ==
  {<<"n", "o">>,
   <<"y", "e", "s">>,
   <<"d", "o", "e", "s">>,
   <<" ", "n", "o", "t">>,
   <<"n", "'", "t">>,
   <<"n", "o", "t", "h", "i", "n", "g">>,
   <<"0">>,
   <<" ", "5">>,
   <<"-", "3", ".", "7">>,
   <<"N", "o", ",", " ">>,
   LongDigits}

ListPieces ==
  {<<"a">>,
   <<",">>,
   <<",", " ">>,
   <<"a", "n", "d">>,
   <<"1", ".">>,
   <<"1", ".", "b">>,
   <<"\n">>,
   <<"[">>,
   <<"]">>,
   <<"[", "'", "a", "'", ",", " ", "'", "b", "'", "]">>,
   <<"[", "{", "[", "1", "]", ":", "2", "}", "]">>}

Vocabulary(qt) ==
  IF qt \in IntegerTypes THEN NumberPieces
  ELSE IF qt = FIND_DUPLICATES_TOOL THEN BooleanPieces
  ELSE ListPieces

RECURSIVE Concat(_, _)
Concat(ps, i) == IF i > Len(ps) THEN <<>> ELSE ps[i] \o Concat(ps, i + 1)

Bodies(V) ==
  {Concat(ps, 1) : ps \in UNION {[1..n -> V] : n \in 0..MaxPieces}}

\* an earlier answer span and some untagged text
Earlier == <<"t", "r", "y", " ", "<answer>", "7", "</answer>", "\n">>
Trailing == <<" ", "7">>

\* a span in the surroundings a response can give it
Surrounded(span) ==
  {<<"<answer>">> \o span \o <<"</answer>">>,
   Earlier \o <<"<answer>">> \o span \o <<"</answer>">>,
   Earlier \o <<"<Answer>">> \o span \o <<"</ANSWER>">> \o Trailing}

\* a body with or without answer tags; in the last one a second opening tag
\* precedes the body
Framed(body) ==
  Surrounded(body) \cup
    {body, <<"<answer>">> \o body, body \o <<"</answer>">>,
     <<"<answer>", "7", " ", "<answer>">> \o body \o <<"</answer>">>}

Texts(qt) == UNION {Framed(b) : b \in Bodies(Vocabulary(qt))}

\* the content of the last answer span of a text that has one
LastSpan(text) ==
  LET matches == FindAllAnswer(text, 1) IN matches[Len(matches)]

HasSpan(text) == FindAllAnswer(text, 1) # <<>>

----------------------------------------------------------------------------
(* The extractor: a response is parsed; the last span of the response is   *)
(* then put into other surroundings and parsed again.                      *)

\* run is not running
RunIdle ==
  /\ args = None
  /\ output_file = <<>>
  /\ old_file = <<>>
  /\ completed_ids = {}
  /\ pending_rows = <<>>
  /\ output_records = <<>>
  /\ results = <<>>
  /\ written = 0
  /\ returned = None

\* evaluate is not running
EvaluateIdle ==
  /\ knowledge_label = ""
  /\ rows = <<>>
  /\ preds = <<>>
  /\ data = <<>>
  /\ idx = 0
  /\ matched = 0
  /\ total = 0
  /\ correct = 0
  /\ f1s = <<>>
  /\ outcome = None
  /\ report = None

Init ==
  /\ question_type \in QUESTION_TYPES
  /\ history_label \in HISTORY_TYPE_LABELS
  /\ raw_text \in Texts(question_type)
  /\ question_type \notin IntegerTypes \cup {FIND_DUPLICATES_TOOL}
       => parse_response(question_type, history_label, raw_text)[1].t
            # "unmodelled"
  /\ parsed = <<None, "">>
  /\ raw_text2 = <<>>
  /\ parsed2 = <<None, "">>
  /\ pc = "start"
  /\ EvaluateIdle
  /\ RunIdle

ParseResponse ==
  /\ pc = "start"
  /\ parsed' = parse_response(question_type, history_label, raw_text)
  /\ pc' = "parsed"
  /\ UNCHANGED <<question_type, history_label, raw_text, raw_text2, parsed2,
                 evaluateVars, runVars>>

ParseReworded ==
  /\ pc = "parsed"
  /\ HasSpan(raw_text)
  /\ \E text \in Surrounded(LastSpan(raw_text)) :
        /\ raw_text2' = text
        /\ parsed2' = parse_response(question_type, history_label, text)
  /\ pc' = "reparsed"
  /\ UNCHANGED <<question_type, history_label, raw_text, parsed,
                 evaluateVars, runVars>>

Next == ParseResponse \/ ParseReworded

Spec == Init /\ [][Next]_vars

----------------------------------------------------------------------------
(* mapping.py: require_single_question_type.  A dataset row is a record    *)
(* [id, question_type, answer]; the question type is kept as a whole label *)
(* and is "" in a row without one.                                         *)

\* the question type of the rows, or the ValueError raised
require_single_question_type(rs) ==
  LET types == {rs[i].question_type :
                  i \in {j \in 1..Len(rs) : rs[j].question_type # ""}}
  IN IF types = {} THEN Raised("ValueError")
     ELSE IF Cardinality(types) # 1 THEN Raised("ValueError")
     ELSE LET qt == CHOOSE t \in types : TRUE
          IN IF qt \notin QUESTION_TYPES THEN Raised("ValueError")
             ELSE [t |-> "label", v |-> qt]

----------------------------------------------------------------------------
(* evaluate.py: evaluate.  A prediction record is [id, sample_id, round,   *)
(* pred_answer, pred_intersection], a field being None when the record has *)
(* no such key.  A score is a fraction <<numerator, denominator>>; correct *)
(* is counted in halves.                                                   *)

Mul(a, b) == <<a[1] * b[1], a[2] * b[2]>>
Add(a, b) == <<a[1] * b[2] + b[1] * a[2], a[2] * b[2]>>
Div(a, b) == <<a[1] * b[2], a[2] * b[1]>>

RECURSIVE Sum(_, _)
Sum(fs, i) == IF i > Len(fs) THEN <<0, 1>> ELSE Add(fs[i], Sum(fs, i + 1))

\* data = {row["id"]: row for row in rows}: a later row replaces an earlier
\* one with the same id
DataOf(rs) ==
  [k \in {rs[i].id : i \in 1..Len(rs)} |->
     rs[CHOOSE i \in 1..Len(rs) :
          rs[i].id = k /\ \A j \in (i + 1)..Len(rs) : rs[j].id # k]]

\* key is a str that is not empty and a key of data
Matches(key) == Truthy(key) /\ key \in DOMAIN data

\* the value scored in the f1 path: pred_answer, or the legacy field
PredValueF1(pred) ==
  IF pred.pred_answer.t = "None" THEN pred.pred_intersection
  ELSE pred.pred_answer

\* the Jaccard index of the two sets, not their F1
SampleJaccard(gt, pred_val) ==
  LET gt_set == Range(_to_set(gt))
      pred_set == Range(_to_set(pred_val))
  IN IF gt_set = {} /\ pred_set = {} THEN <<1, 1>>
     ELSE <<Cardinality(gt_set \cap pred_set),
            Cardinality(gt_set \cup pred_set)>>

\* an F1 that counts the positions at which the two lists agree
SampleF1Positional(gt, pred_val) ==
  LET g == _to_set(gt)
      p == _to_set(pred_val)
  IN IF g = <<>> /\ p = <<>> THEN <<1, 1>>
     ELSE IF g = <<>> \/ p = <<>> THEN <<0, 1>>
     ELSE <<2 * Cardinality({i \in DOMAIN g \cap DOMAIN p : g[i] = p[i]}),
            Len(g) + Len(p)>>

\* lines 146-159: the f1 of one sample
SampleF1(gt, pred_val) ==
  LET gt_set == Range(_to_set(gt))
      pred_set == Range(_to_set(pred_val))
  IN IF gt_set = {} /\ pred_set = {} THEN <<1, 1>>
     ELSE IF gt_set = {} \/ pred_set = {} THEN <<0, 1>>
     ELSE LET inter == Cardinality(gt_set \cap pred_set)
              prec == <<inter, Cardinality(pred_set)>>
              rec == <<inter, Cardinality(gt_set)>>
          IN IF Add(prec, rec)[1] # 0
             THEN Div(Mul(<<2, 1>>, Mul(prec, rec)), Add(prec, rec))
             ELSE <<0, 1>>

\* a sample that is scored as a miss where the code skips it
SkippedAsZero == [t |-> "scored", v |-> <<0, 2>>]

\* a score that counts twice
ScoredTwice(halves) == [t |-> "scored", v |-> <<2 * halves, 2>>]

Skipped == [t |-> "skipped", v |-> <<>>]
Scored(halves) == [t |-> "scored", v |-> <<halves, 2>>]
Unmatched == [t |-> "unmatched", v |-> <<>>]

\* lines 183-237: what the accuracy path does with one matched sample
SampleAccuracy(qt, hl, kl, gt, pred_val) ==
  IF qt \in IntegerTypes
  THEN LET gt_num == _to_number(gt)
           pred_num == _to_number(pred_val)
       IN IF gt_num.t = "None" THEN Skipped
          ELSE IF pred_num.t # "None" /\ NumEq(pred_num, gt_num)
          THEN Scored(2) ELSE Scored(0)
  ELSE IF qt = FIND_DUPLICATES_TOOL
  THEN LET gt_bool == _normalize_boolean(gt)
           pred_bool == _normalize_boolean(pred_val)
       IN IF gt_bool.t = "None" THEN Skipped
          ELSE IF pred_bool.t # "None" /\ pred_bool = gt_bool
          THEN Scored(2) ELSE Scored(0)
  ELSE IF qt = FIND_TARGET_OFFSETS_TOOL
  THEN LET gt_list == _normalize_pair_list(gt, kl)
           pred_list == _normalize_pair_list(pred_val, kl)
       IN IF gt_list.t = "None" THEN Skipped
          ELSE IF pred_list.t # "None"
          THEN Scored(_compare_pair_lists(pred_list.v, gt_list.v))
          ELSE Scored(0)
  ELSE IF qt = INTERSECTION /\ hl = "Concise-Response"
  THEN LET gt_norm ==
             _normalize_name(IF Truthy(gt) THEN StrOf(gt) ELSE <<>>, kl)
           pred_norm ==
             _normalize_name(IF Truthy(pred_val) THEN StrOf(pred_val)
                             ELSE <<>>, kl)
       IN IF gt_norm = <<>> THEN Skipped
          ELSE IF pred_norm = gt_norm THEN Scored(2) ELSE Scored(0)
  ELSE Skipped

----------------------------------------------------------------------------
(* The datasets and prediction files the specification draws.              *)

MaxPreds == 2

Row(id, qt, answer) == [id |-> id, question_type |-> qt, answer |-> answer]

Pred(id, sample_id, round, pred_answer, pred_intersection) ==
  [id |-> id, sample_id |-> sample_id, round |-> round,
   pred_answer |-> pred_answer, pred_intersection |-> pred_intersection]

\* ground truths: the first one is well formed
GroundTruths(qt, hl) ==
  IF qt \in IntegerTypes
  THEN <<PyInt(<<"7">>), PyStr(<<"7", ".", "9">>), None>>
  ELSE IF qt = FIND_DUPLICATES_TOOL
  THEN <<PyBool(TRUE), PyStr(<<"n", "o">>), None>>
  ELSE IF qt = FIND_TARGET_OFFSETS_TOOL
  THEN <<PyList(<<<<"a", "_", "b">>, <<"c">>>>), PyList(<<>>), None>>
  ELSE IF hl = "Concise-Response"
  THEN <<PyStr(<<"a", "_", "b">>), PyStr(<<>>), None>>
  ELSE <<PyList(<<<<"a">>, <<"b">>>>), PyList(<<>>),
         PyStr(<<"a", ",", " ", "b">>),
         PyList(<<<<"b">>, <<"a">>, <<"a">>>>)>>

\* values of pred_answer: None is the answer that could not be extracted
PredAnswers(qt, hl) ==
  IF qt \in IntegerTypes
  THEN {None, PyInt(<<"7">>), PyStr(<<"8">>)}
  ELSE IF qt = FIND_DUPLICATES_TOOL
  THEN {None, PyBool(TRUE), PyInt(<<"0">>)}
  ELSE IF qt = FIND_TARGET_OFFSETS_TOOL
  THEN {None, PyList(<<>>),
        PyList(<<<<"A", "b">>, <<"c">>>>), PyList(<<<<"a", "_", "b">>>>),
        PyList(<<<<"c">>>>), PyList(<<<<"x">>, <<"y">>>>),
        PyList(<<<<"a", "_", "b">>, <<"c">>, <<"d">>>>)}
  ELSE IF hl = "Concise-Response"
  THEN {None, PyStr(<<"A", "b">>), PyStr(<<"c">>)}
  ELSE {None, PyList(<<<<"b">>, <<"c">>>>), PyList(<<>>),
        PyList(<<<<"c">>, <<"b">>, <<"b">>>>),
        PyList(<<<<" ", "b">>, <<"A">>>>),
        PyStr(<<"c", " ", "b">>)}

\* values of the legacy field pred_intersection
LegacyAnswers(qt, hl) ==
  IF qt = INTERSECTION /\ hl = "Verbose-Response"
  THEN {None, PyList(<<<<"a">>>>)}
  ELSE {None}

\* another question type than qt
OtherType(qt) == CHOOSE t \in QUESTION_TYPES : t # qt

\* no row; or a row of type qt with id "a" or 2, alone or followed by a row
\* with id "a_r1" that is of type qt, of another type or of no type
Datasets(qt, hl) ==
  LET gts == GroundTruths(qt, hl)
      second == PyStr(<<"a", "_", "r", "1">>)
  IN {<<>>} \cup
     {<<Row(id, qt, gts[g])>> \o more :
        id \in {PyStr(<<"a">>), PyInt(<<"2">>)},
        g \in 1..Len(gts),
        more \in {<<>>, <<Row(second, qt, gts[1])>>,
                  <<Row(second, OtherType(qt), gts[1])>>,
                  <<Row(second, "", gts[1])>>}}

\* a record with the id "a", with the id 2, with sample_id "a" and round 1,
\* or with no identifier at all
PredRecords(qt, hl) ==
  {Pred(k[1], k[2], k[3], a, l) :
     k \in {<<PyStr(<<"a">>), None, None>>,
            <<PyInt(<<"2">>), None, None>>,
            <<None, PyStr(<<"a">>), PyInt(<<"1">>)>>,
            <<None, None, None>>},
     a \in PredAnswers(qt, hl),
     l \in LegacyAnswers(qt, hl)}

Predictions(qt, hl) ==
  {AsSeq(ps) : ps \in UNION {[1..n -> PredRecords(qt, hl)] : n \in 0..MaxPreds}}

----------------------------------------------------------------------------
(* evaluate as a state machine: the start (lines 127-139), one step for    *)
(* each prediction record, the report.                                     *)

ExtractorIdle ==
  /\ raw_text = <<>>
  /\ parsed = <<None, "">>
  /\ raw_text2 = <<>>
  /\ parsed2 = <<None, "">>

InitEvaluate ==
  /\ pc = "evaluate"
  /\ question_type = ""
  /\ history_label \in HISTORY_TYPE_LABELS
  /\ knowledge_label \in KNOWLEDGE_TYPE_LABELS
  /\ \E qt \in QUESTION_TYPES :
        /\ rows \in Datasets(qt, history_label)
        /\ preds \in Predictions(qt, history_label)
  /\ data = <<>>
  /\ idx = 0
  /\ matched = 0
  /\ total = 0
  /\ correct = 0
  /\ f1s = <<>>
  /\ outcome = None
  /\ report = None
  /\ ExtractorIdle
  /\ RunIdle

\* lines 127-139: a dataset without a single question type raises
EvaluateStart ==
  /\ pc = "evaluate"
  /\ LET qt == require_single_question_type(rows)
     IN IF qt.t = "raise"
        THEN /\ report' = qt
             /\ pc' = "raised"
             /\ UNCHANGED <<question_type, data, idx>>
        ELSE /\ question_type' = qt.v
             /\ data' = DataOf(rows)
             /\ idx' = 1
             /\ pc' = IF qt.v = INTERSECTION /\ history_label = "Verbose-Response"
                      THEN "f1" ELSE "accuracy"
             /\ UNCHANGED report
  /\ UNCHANGED <<history_label, knowledge_label, rows, preds, matched, total,
                 correct, f1s, outcome, extractorVars, runVars>>

\* lines 141-162: one prediction record in the f1 path
ScoreF1 ==
  /\ pc = "f1"
  /\ idx <= Len(preds)
  /\ LET pred == preds[idx]
         key == _pred_key(pred)
     IN IF ~Matches(key)
        THEN /\ outcome' = Unmatched
             /\ UNCHANGED <<matched, f1s>>
        ELSE LET f1 == SampleF1(data[key].answer, PredValueF1(pred))
             IN /\ matched' = matched + 1
                /\ f1s' = Append(f1s, f1)
                /\ outcome' = [t |-> "scored", v |-> f1]
  /\ idx' = idx + 1
  /\ UNCHANGED <<question_type, history_label, pc, knowledge_label, rows,
                 preds, data, total, correct, report, extractorVars, runVars>>

\* lines 163-172
ReportF1 ==
  /\ pc = "f1"
  /\ idx > Len(preds)
  /\ report' = [question_type |-> question_type,
                knowledge_type |-> knowledge_label,
                history_type |-> history_label,
                metric |-> "f1",
                score |-> IF f1s # <<>>
                          THEN Div(Sum(f1s, 1), <<Len(f1s), 1>>)
                          ELSE <<0, 1>>,
                matched |-> matched,
                skipped |-> Len(preds) - matched]
  /\ pc' = "done"
  /\ UNCHANGED <<question_type, history_label, knowledge_label, rows, preds,
                 data, idx, matched, total, correct, f1s, outcome,
                 extractorVars, runVars>>

\* a fold in which a scored record that earns nothing clears what the records
\* before it earned
ScoreAccuracyStreak ==
  /\ pc = "accuracy"
  /\ idx <= Len(preds)
  /\ LET pred == preds[idx]
         key == _pred_key(pred)
     IN IF ~Matches(key)
        THEN /\ outcome' = Unmatched
             /\ UNCHANGED <<matched, total, correct>>
        ELSE LET result == SampleAccuracy(question_type, history_label,
                                          knowledge_label, data[key].answer,
                                          pred.pred_answer)
             IN /\ matched' = matched + 1
                /\ outcome' = result
                /\ IF result.t = "scored"
                   THEN /\ total' = total + 1
                        /\ correct' = IF result.v[1] = 0 THEN 0
                                      ELSE correct + result.v[1]
                   ELSE UNCHANGED <<total, correct>>
  /\ idx' = idx + 1
  /\ UNCHANGED <<question_type, history_label, pc, knowledge_label, rows,
                 preds, data, f1s, report, extractorVars, runVars>>

\* lines 174-237: one prediction record in the accuracy path
ScoreAccuracy ==
  /\ pc = "accuracy"
  /\ idx <= Len(preds)
  /\ LET pred == preds[idx]
         key == _pred_key(pred)
     IN IF ~Matches(key)
        THEN /\ outcome' = Unmatched
             /\ UNCHANGED <<matched, total, correct>>
        ELSE LET result == SampleAccuracy(question_type, history_label,
                                          knowledge_label, data[key].answer,
                                          pred.pred_answer)
             IN /\ matched' = matched + 1
                /\ outcome' = result
                /\ IF result.t = "scored"
                   THEN total' = total + 1 /\ correct' = correct + result.v[1]
                   ELSE UNCHANGED <<total, correct>>
  /\ idx' = idx + 1
  /\ UNCHANGED <<question_type, history_label, pc, knowledge_label, rows,
                 preds, data, f1s, report, extractorVars, runVars>>

\* a report whose skipped counter takes in the samples skipped for their
\* ground truth
ReportAccuracyAbsorbing ==
  /\ pc = "accuracy"
  /\ idx > Len(preds)
  /\ report' = [question_type |-> question_type,
                knowledge_type |-> knowledge_label,
                history_type |-> history_label,
                metric |-> "accuracy",
                score |-> IF total > 0 THEN <<correct, 2 * total>>
                          ELSE <<0, 1>>,
                correct |-> correct,
                total |-> total,
                matched |-> matched,
                skipped |-> Len(preds) - total]
  /\ pc' = "done"
  /\ UNCHANGED <<question_type, history_label, knowledge_label, rows, preds,
                 data, idx, matched, total, correct, f1s, outcome,
                 extractorVars, runVars>>

\* a report whose score is the mean over the matched samples, the skipped
\* ones included
ReportAccuracyOverMatched ==
  /\ pc = "accuracy"
  /\ idx > Len(preds)
  /\ report' = [question_type |-> question_type,
                knowledge_type |-> knowledge_label,
                history_type |-> history_label,
                metric |-> "accuracy",
                score |-> IF matched > 0 THEN <<correct, 2 * matched>>
                          ELSE <<0, 1>>,
                correct |-> correct,
                total |-> total,
                matched |-> matched,
                skipped |-> Len(preds) - matched]
  /\ pc' = "done"
  /\ UNCHANGED <<question_type, history_label, knowledge_label, rows, preds,
                 data, idx, matched, total, correct, f1s, outcome,
                 extractorVars, runVars>>

\* lines 239-250
ReportAccuracy ==
  /\ pc = "accuracy"
  /\ idx > Len(preds)
  /\ report' = [question_type |-> question_type,
                knowledge_type |-> knowledge_label,
                history_type |-> history_label,
                metric |-> "accuracy",
                score |-> IF total > 0 THEN <<correct, 2 * total>>
                          ELSE <<0, 1>>,
                correct |-> correct,
                total |-> total,
                matched |-> matched,
                skipped |-> Len(preds) - matched]
  /\ pc' = "done"
  /\ UNCHANGED <<question_type, history_label, knowledge_label, rows, preds,
                 data, idx, matched, total, correct, f1s, outcome,
                 extractorVars, runVars>>

NextEvaluate ==
  EvaluateStart \/ ScoreF1 \/ ReportF1 \/ ScoreAccuracy \/ ReportAccuracy

SpecEvaluate == InitEvaluate /\ [][NextEvaluate]_vars

----------------------------------------------------------------------------
(* eval/run.py and vllm_offline: the runners.  The output file is the      *)
(* sequence of its records; a file that does not exist reads as the empty  *)
(* file.  A record is [id, sample_id, raw_response, origin]: origin tells  *)
(* a record produced by this run from one found in the file, raw_response  *)
(* is Missing where the record has no such key.  A dataset row is          *)
(* [id, question_type, sample_id].                                         *)

MaxRows == 3
MaxLines == 2

Missing == [t |-> "missing", v |-> <<>>]

\* Optional[int] = None
NoLimit == -1

RunRow(sample_id, id, qt) ==
  [id |-> id, question_type |-> qt, sample_id |-> sample_id]

\* run.py lines 97-104, vllm_offline/run.py lines 78-85
Record(sample, raw_response, origin) ==
  [id |-> sample.id, sample_id |-> sample.sample_id,
   raw_response |-> raw_response, origin |-> origin]

\* rows[offset:] and rows[offset : offset + limit], offset and limit >= 0
slice_rows(rs, offset, limit) ==
  IF limit = NoLimit THEN SubSeq(rs, offset + 1, Len(rs))
  ELSE SubSeq(rs, offset + 1,
              IF offset + limit < Len(rs) THEN offset + limit ELSE Len(rs))

\* obj.get("raw_response", "")
RawOf(obj) ==
  IF obj.raw_response = Missing THEN PyStr(<<>>) ELSE obj.raw_response

\* vllm_offline/common.py lines 21-37
load_completed_ids(file) ==
  {StrOf(file[i].id) : i \in {j \in 1..Len(file) : file[j].id # None}}

\* a completed set that takes in the records with a blank response
_load_completed_ids_blank(file) ==
  {StrOf(file[i].id) : i \in {j \in 1..Len(file) : file[j].id # None}}

\* run.py lines 23-40
_load_completed_ids(file) ==
  {StrOf(file[i].id) :
     i \in {j \in 1..Len(file) :
              /\ file[j].id # None
              /\ Strip(StrOf(RawOf(file[j]))) # <<>>}}

\* a dict that keeps the old record next to the new one
PutAppending(records, obj) == Append(records, obj)

\* records[str(sid)] = obj on a dict that keeps the place of a key it has
Put(records, obj) ==
  IF \E i \in 1..Len(records) : StrOf(records[i].id) = StrOf(obj.id)
  THEN [i \in 1..Len(records) |->
          IF StrOf(records[i].id) = StrOf(obj.id) THEN obj ELSE records[i]]
  ELSE Append(records, obj)

\* run.py lines 43-59, from line i of the file on
RECURSIVE LoadFrom(_, _, _)
LoadFrom(file, i, records) ==
  IF i > Len(file) THEN records
  ELSE LoadFrom(file, i + 1,
                IF file[i].id # None THEN Put(records, file[i]) ELSE records)

_load_existing_records(file) == LoadFrom(file, 1, <<>>)

\* run.py lines 140-145, from row i of the slice on
RECURSIVE PendingFrom(_, _, _)
PendingFrom(rs, i, completed) ==
  IF i > Len(rs) THEN <<>>
  ELSE (IF rs[i].id # None /\ StrOf(rs[i].id) \in completed
        THEN <<>> ELSE <<rs[i]>>)
       \o PendingFrom(rs, i + 1, completed)

\* vllm_offline/common.py lines 46-55, from row i on
RECURSIVE filter_pending_from(_, _, _)
filter_pending_from(rs, i, completed) ==
  IF i > Len(rs) THEN <<>>
  ELSE IF rs[i].id = None
  THEN <<rs[i]>> \o filter_pending_from(rs, i + 1, completed)
  ELSE IF StrOf(rs[i].id) \notin completed
  THEN <<rs[i]>> \o filter_pending_from(rs, i + 1, completed)
  ELSE filter_pending_from(rs, i + 1, completed)

filter_pending(rs, completed) == filter_pending_from(rs, 1, completed)

\* what has become of the call of _process_sample for a pending sample
Running == [t |-> "running", v |-> <<>>]
Result(record) == [t |-> "result", v |-> record]

\* what the model answers: nothing, or a text
Responses == {PyStr(<<>>), PyStr(<<"y">>)}

RowIds == {PyStr(<<"a">>), PyStr(<<"b">>), None}

\* the ids of a dataset are all different; a row may have no id
RunDatasets ==
  {rs \in UNION {[1..n -> {RunRow(k, id, qt) :
                             k \in 1..MaxRows, id \in RowIds,
                             qt \in {COUNT_FREQUENCY_TOOL, INTERSECTION}}]
                   : n \in 0..MaxRows} :
     \A i \in DOMAIN rs :
        /\ rs[i].sample_id = i
        /\ \A j \in DOMAIN rs :
              i # j /\ rs[i].id # None => rs[i].id # rs[j].id}

\* a record an earlier run has left in the file
OldRecords ==
  {[id |-> id, sample_id |-> 0, raw_response |-> raw, origin |-> "earlier"] :
     id \in RowIds \ {None},
     raw \in {Missing, PyStr(<<>>), PyStr(<<" ">>), PyStr(<<"x">>)}}

\* the files run writes: one record for an id, none without id
OldFiles ==
  {AsSeq(f) : f \in {g \in UNION {[1..n -> OldRecords] : n \in 0..MaxLines} :
                       \A i, j \in DOMAIN g : i # j => g[i].id # g[j].id}}

Arguments ==
  [offset : {0, 1}, limit : {NoLimit, 1, 2}, workers : {1, 2}, resume : BOOLEAN]

InitRun ==
  /\ pc = "run"
  /\ question_type = ""
  /\ history_label = "Concise-Response"
  /\ knowledge_label = "knowledge_intensive"
  /\ rows \in {AsSeq(rs) : rs \in RunDatasets}
  /\ args \in Arguments
  /\ old_file \in OldFiles
  /\ output_file = old_file
  /\ completed_ids = {}
  /\ pending_rows = <<>>
  /\ output_records = <<>>
  /\ results = <<>>
  /\ written = 0
  /\ returned = None
  /\ preds = <<>>
  /\ data = <<>>
  /\ idx = 0
  /\ matched = 0
  /\ total = 0
  /\ correct = 0
  /\ f1s = <<>>
  /\ outcome = None
  /\ report = None
  /\ ExtractorIdle

\* run.py lines 122-154
RunStart ==
  /\ pc = "run"
  /\ LET sliced == slice_rows(rows, args.offset, args.limit)
         qt == require_single_question_type(sliced)
     IN IF qt.t = "raise"
        THEN /\ returned' = qt
             /\ pc' = "raised"
             /\ UNCHANGED <<question_type, completed_ids, pending_rows,
                            output_records, results>>
        ELSE LET completed == IF args.resume
                              THEN _load_completed_ids(output_file) ELSE {}
                 pending == PendingFrom(sliced, 1, completed)
             IN /\ question_type' = qt.v
                /\ completed_ids' = completed
                /\ pending_rows' = pending
                /\ results' = [i \in 1..Len(pending) |-> Running]
                /\ IF pending = <<>>
                   THEN /\ returned' = 0
                        /\ pc' = "done"
                        /\ UNCHANGED output_records
                   ELSE /\ output_records' =
                             IF args.resume
                             THEN _load_existing_records(output_file)
                             ELSE <<>>
                        /\ pc' = IF args.workers = 1 THEN "serial"
                                 ELSE "parallel"
                        /\ UNCHANGED returned
  /\ UNCHANGED <<history_label, args, output_file, old_file, written,
                 extractorVars, evaluateVars>>

\* run.py lines 157-162: the next sample of the single-worker loop; an
\* exception of _process_sample leaves run
ProcessSample ==
  /\ pc = "serial"
  /\ written < Len(pending_rows)
  /\ LET sample == pending_rows[written + 1]
     IN \/ \E raw \in Responses :
             LET record == Record(sample, raw, "this")
             IN /\ results' = [results EXCEPT ![written + 1] = Result(record)]
                /\ output_records' = IF sample.id # None
                                     THEN Put(output_records, record)
                                     ELSE output_records
                /\ written' = written + 1
                /\ UNCHANGED <<pc, returned>>
        \/ /\ results' = [results EXCEPT ![written + 1] = Raised("Exception")]
           /\ returned' = Raised("Exception")
           /\ pc' = "raised"
           /\ UNCHANGED <<output_records, written>>
  /\ UNCHANGED <<question_type, history_label, args, output_file, old_file,
                 completed_ids, pending_rows, extractorVars, evaluateVars>>

\* a pool that drops the futures still running when one of them raises
FutureCompletesAborting ==
  /\ pc = "parallel"
  /\ \E i \in {j \in 1..Len(results) : results[j].t = "running"} :
       LET sample == pending_rows[i]
       IN \/ \E raw \in Responses :
               LET record == Record(sample, raw, "this")
               IN /\ results' = [results EXCEPT ![i] = Result(record)]
                  /\ output_records' = IF sample.id # None
                                       THEN Put(output_records, record)
                                       ELSE output_records
                  /\ written' = written + 1
          \/ /\ results' = [j \in 1..Len(results) |->
                              IF j = i \/ results[j].t = "running"
                              THEN Raised("Exception") ELSE results[j]]
             /\ UNCHANGED <<output_records, written>>
  /\ UNCHANGED <<question_type, history_label, pc, args, output_file,
                 old_file, completed_ids, pending_rows, returned,
                 extractorVars, evaluateVars>>

\* run.py lines 164-184: as_completed hands over a future, whichever is
\* done first; its exception is printed and the loop goes on
FutureCompletes ==
  /\ pc = "parallel"
  /\ \E i \in {j \in 1..Len(results) : results[j].t = "running"} :
       LET sample == pending_rows[i]
       IN \/ \E raw \in Responses :
               LET record == Record(sample, raw, "this")
               IN /\ results' = [results EXCEPT ![i] = Result(record)]
                  /\ output_records' = IF sample.id # None
                                       THEN Put(output_records, record)
                                       ELSE output_records
                  /\ written' = written + 1
          \/ /\ results' = [results EXCEPT ![i] = Raised("Exception")]
             /\ UNCHANGED <<output_records, written>>
  /\ UNCHANGED <<question_type, history_label, pc, args, output_file,
                 old_file, completed_ids, pending_rows, returned,
                 extractorVars, evaluateVars>>

\* run.py lines 186-190
WriteOutput ==
  /\ \/ pc = "serial" /\ written = Len(pending_rows)
     \/ pc = "parallel" /\ \A i \in 1..Len(results) : results[i].t # "running"
  /\ output_file' = output_records
  /\ returned' = written
  /\ pc' = "done"
  /\ UNCHANGED <<question_type, history_label, args, old_file, completed_ids,
                 pending_rows, output_records, results, written,
                 extractorVars, evaluateVars>>

\* vllm_offline/run.py lines 42-95: the whole run of the offline runner on
\* the same dataset, arguments and file
VllmRun ==
  /\ pc = "run"
  /\ LET sliced == slice_rows(rows, args.offset, args.limit)
         qt == require_single_question_type(sliced)
     IN IF qt.t = "raise"
        THEN /\ returned' = qt
             /\ pc' = "vllm_raised"
             /\ UNCHANGED <<question_type, completed_ids, pending_rows,
                            results, output_file, written>>
        ELSE LET completed == IF args.resume
                              THEN load_completed_ids(output_file) ELSE {}
                 pending == filter_pending(sliced, completed)
             IN /\ question_type' = qt.v
                /\ completed_ids' = completed
                /\ pending_rows' = pending
                /\ IF pending = <<>>
                   THEN /\ returned' = 0
                        /\ pc' = "vllm_done"
                        /\ UNCHANGED <<results, output_file, written>>
                   ELSE \E raws \in [1..Len(pending) -> Responses] :
                          LET records == [i \in 1..Len(pending) |->
                                            Record(pending[i], raws[i], "this")]
                          IN /\ results' = [i \in 1..Len(pending) |->
                                              Result(records[i])]
                             /\ output_file' =
                                  (IF args.resume THEN output_file ELSE <<>>)
                                  \o records
                             /\ written' = Len(pending)
                             /\ returned' = Len(pending)
                             /\ pc' = "vllm_done"
  /\ UNCHANGED <<history_label, args, old_file, output_records,
                 extractorVars, evaluateVars>>

NextRun ==
  RunStart \/ ProcessSample \/ FutureCompletes \/ WriteOutput \/ VllmRun

SpecRun == InitRun /\ [][NextRun]_vars

----------------------------------------------------------------------------
(* Properties of the extractor                                             *)

Parsed == pc # "start"
Value == parsed[1]
Span == LastSpan(raw_text)
InnerSpan == Strip(Span)

\* C1: the value depends on the content of the last answer span only: a
\* response with the same last span in other surroundings (other text before
\* and after it, another earlier span) parses to the same value
C1_LastSpanOnly ==
  (/\ pc = "reparsed"
   /\ HasSpan(raw_text) /\ HasSpan(raw_text2)
   /\ LastSpan(raw_text2) = LastSpan(raw_text))
  => parsed2 = parsed

\* two responses with two spans each, the last ones alike, the first ones not
C1_Witness ==
  /\ pc = "reparsed"
  /\ raw_text2 # raw_text
  /\ LastSpan(raw_text2) = LastSpan(raw_text)
  /\ Len(FindAllAnswer(raw_text2, 1)) = 2
  /\ FindAllAnswer(raw_text2, 1)[1] # LastSpan(raw_text2)
  /\ Value.t \in {"int", "bool", "list", "str"}
  /\ parsed2 = parsed

\* C2: a response without an answer span parses to None, whatever the
\* question type and the history label
C2_NoSpanGivesNone == (Parsed /\ ~HasSpan(raw_text)) => Value = None

\* C3: parse_response raises no exception
C3_NeverRaises == Parsed => Value.t # "raise"

\* an integer in plain form (no sign, no leading zero)
IsPlain(s) ==
  /\ s # <<>>
  /\ \A i \in 1..Len(s) : IsDigit(s[i])
  /\ (s[1] = "0" => Len(s) = 1)

\* an integer with thousands separators: 1,234 or 12,345,678
IsGrouped(s) ==
  LET commas == {i \in 1..Len(s) : s[i] = ","}
  IN /\ commas # {}
     /\ \A i \in 1..Len(s) : (i \notin commas) => IsDigit(s[i])
     /\ s[1] \notin {"0", ","}
     /\ Least(commas) <= 4
     /\ \A i \in commas : (Len(s) - i) % 4 = 3
     /\ \A i \in 1..Len(s) : ((Len(s) - i) % 4 = 3) => i \in commas

\* a decimal suffix: a period and zeros
IsZeroSuffix(s) ==
  Len(s) >= 2 /\ s[1] = "." /\ \A i \in 2..Len(s) : s[i] = "0"

\* s writes an integer: an optional sign, the plain or grouped digits, an
\* optional decimal suffix
IsIntegerForm(s) ==
  /\ s # <<>>
  /\ LET u == IF s[1] = "-" THEN Tail(s) ELSE s
         dot == FirstIn(u, {"."}, 1)
         core == IF dot = 0 THEN u ELSE SubSeq(u, 1, dot - 1)
     IN /\ IsPlain(core) \/ IsGrouped(core)
        /\ dot # 0 => IsZeroSuffix(SubSeq(u, dot, Len(u)))

\* the integer that a form writes
IntegerOf(s) ==
  LET neg == s[1] = "-"
      u == IF neg THEN Tail(s) ELSE s
      dot == FirstIn(u, {"."}, 1)
      core == RemoveCommas(IF dot = 0 THEN u ELSE SubSeq(u, 1, dot - 1))
  IN IF neg /\ core # <<"0">> THEN <<"-">> \o core ELSE core

\* C4: an integer written in the span in plain, thousands-separated or
\* decimal-suffixed form is extracted exactly
C4_RoundTrip ==
  (/\ Parsed /\ question_type \in IntegerTypes
   /\ HasSpan(raw_text) /\ IsIntegerForm(InnerSpan))
  => Value = PyInt(IntegerOf(InnerSpan))

\* the integer part of a decimal spelling, without leading zeros: the
\* spelling truncated toward zero
Truncated(clean) ==
  LET neg == clean[1] = "-"
      u == IF neg THEN Tail(clean) ELSE clean
      dot == FirstIn(u, {"."}, 1)
      ipart == IF dot = 0 THEN u ELSE SubSeq(u, 1, dot - 1)
      nz == {i \in 1..Len(ipart) : ipart[i] # "0"}
      digits == IF nz = {} THEN <<"0">> ELSE SubSeq(ipart, Least(nz), Len(ipart))
  IN IF neg /\ digits # <<"0">> THEN <<"-">> \o digits ELSE digits

\* C5: the number extracted is the rightmost numeric token of the span,
\* without its separators, truncated toward zero; None without a token
C5_RightmostTruncated ==
  (Parsed /\ question_type \in IntegerTypes /\ HasSpan(raw_text))
  => LET tokens == FindAllNumber(InnerSpan, 1, TRUE)
     IN Value = IF tokens = <<>> THEN None
                ELSE PyInt(Truncated(RemoveCommas(tokens[Len(tokens)])))

\* the keyword k stands in s at i as a whole word
WholeWordAt(s, k, i) ==
  /\ StartsAt(s, k, i)
  /\ i = 1 \/ ~IsWord(s[i - 1])
  /\ i + Len(k) > Len(s) \/ ~IsWord(s[i + Len(k)])

HasKeyword(s, keywords) ==
  LET low == Lower(s)
  IN \E k \in keywords : \E i \in 1..Len(low) : WholeWordAt(low, k, i)

\* C6: a span with a negation keyword as a whole word gives False, whatever
\* else it holds
C6_NegationFirst ==
  (/\ Parsed /\ question_type = FIND_DUPLICATES_TOOL
   /\ HasSpan(raw_text) /\ HasKeyword(InnerSpan, NegKeywords))
  => Value = PyBool(FALSE)

\* a span with a negation keyword and an affirmation keyword
C6_Witness ==
  /\ Parsed /\ question_type = FIND_DUPLICATES_TOOL
  /\ HasSpan(raw_text)
  /\ HasKeyword(InnerSpan, NegKeywords)
  /\ HasKeyword(InnerSpan, PosKeywords)
  /\ Value = PyBool(FALSE)

\* C7: without a keyword in the span, parse_boolean gives v > 0 for the v
\* that parse_number extracts from the same response, and None when
\* parse_number finds no number
C7_FallbackIsIntegerRule ==
  (/\ Parsed /\ question_type = FIND_DUPLICATES_TOOL
   /\ HasSpan(raw_text)
   /\ ~HasKeyword(InnerSpan, NegKeywords)
   /\ ~HasKeyword(InnerSpan, PosKeywords))
  => LET v == parse_number(raw_text)
     IN Value = IF v.t = "int" THEN PyBool(IsPositive(v)) ELSE v

OnlySeparators(s) ==
  LET low == Lower(s)
  IN \A i \in 1..Len(s) :
        \/ s[i] \in {",", ";", "|", "\n", " ", "\t"}
        \/ \E j \in {i - 2, i - 1, i} :
              j >= 1 /\ WholeWordAt(low, <<"a", "n", "d">>, j)

RECURSIVE Fragments(_, _)
Fragments(chunks, i) ==
  IF i > Len(chunks) THEN <<>>
  ELSE LET item == Strip(StripNumbering(Strip(chunks[i])))
       IN (IF item # <<>> THEN <<item>> ELSE <<>>) \o Fragments(chunks, i + 1)

\* C9: in the textual path every fragment comes without its numbering
\* prefix and surrounding white space, in the original order
C9_EveryFragmentStripped ==
  (/\ Parsed /\ question_type = FIND_TARGET_OFFSETS_TOOL
   /\ HasSpan(raw_text) /\ ~Bracketed(InnerSpan))
  => LET fragments ==
           Fragments(Split(SubSeparators(SubAnd(InnerSpan, 1)), 1), 1)
     IN Value = IF fragments = <<>> THEN None ELSE PyList(fragments)

----------------------------------------------------------------------------
(* Properties of evaluate                                                  *)

\* a step of one of the two loops has just processed a record
Stepped == pc \in {"f1", "accuracy"} /\ idx > 1

\* the record that the last step processed, and the row it matched
LastPred == preds[idx - 1]
LastRow == data[_pred_key(LastPred)]

\* the record carries no value: no pred_answer and no legacy field
Absent(pred) == pred.pred_answer = None /\ pred.pred_intersection = None

\* the ground truth has the shape of the question type
Comparable(gt) ==
  IF question_type \in IntegerTypes THEN _to_number(gt) # None
  ELSE IF question_type = FIND_DUPLICATES_TOOL THEN _normalize_boolean(gt) # None
  ELSE IF question_type = FIND_TARGET_OFFSETS_TOOL
  THEN _normalize_pair_list(gt, knowledge_label) # None
  ELSE IF history_label = "Concise-Response"
  THEN Truthy(gt) /\ _normalize_name(StrOf(gt), knowledge_label) # <<>>
  ELSE TRUE

\* C10: a matched prediction record without a value is scored 0 and counted,
\* for every question type and history label: it is not skipped, and against
\* an empty ground truth it does not score as equal
C10_AbsentScoredZero ==
  (/\ Stepped /\ outcome.t # "unmatched"
   /\ Absent(LastPred) /\ Comparable(LastRow.answer))
  => outcome.t = "scored" /\ outcome.v[1] = 0

\* the record that the next step of a loop processes, and the row it matches
ThisPred == preds[idx]
ThisRow == data[_pred_key(ThisPred)]

\* a step of the accuracy loop processes a record that matches a row
MatchedAccuracyStep ==
  /\ pc = "accuracy"
  /\ idx' = idx + 1
  /\ Matches(_pred_key(ThisPred))

\* C11: in the accuracy path a matched sample whose ground truth does not
\* normalize to the shape of the question type leaves correct and total as
\* they are, and a matched sample whose ground truth normalizes raises total
\* by exactly one
C11_SkipLeavesCounters ==
  [][MatchedAccuracyStep =>
       IF Comparable(ThisRow.answer)
       THEN total' = total + 1
       ELSE total' = total /\ correct' = correct]_vars

\* a sample has been scored, and a later one was skipped for its ground truth
C11_Witness ==
  /\ Stepped /\ pc = "accuracy"
  /\ outcome.t = "skipped"
  /\ ~Comparable(LastRow.answer)
  /\ matched = 2 /\ total = 1

\* a step of the accuracy loop has just processed a record that matched a
\* row of a dataset of question type qt
ScoredAs(qt) ==
  /\ Stepped /\ pc = "accuracy"
  /\ question_type = qt
  /\ outcome.t # "unmatched"

\* the ground truth is a list of two names that are not empty
IsPair(gt) ==
  gt.t = "list" /\ Len(gt.v) = 2 /\ gt.v[1] # <<>> /\ gt.v[2] # <<>>

\* two names are equal after name-normalization
SameName(x, y) ==
  _normalize_name(x, knowledge_label) = _normalize_name(y, knowledge_label)

\* C12: against a ground-truth pair (a, b) of non-empty names, a predicted
\* pair equal to (a, b) after name-normalization scores 1.0, a single
\* predicted element that matches a scores 0.5, a single element that does
\* not match a (also one that matches b) scores 0.0, and a pair that matches
\* neither position scores 0.0
C12_PairScores ==
  (/\ ScoredAs(FIND_TARGET_OFFSETS_TOOL)
   /\ IsPair(LastRow.answer)
   /\ LastPred.pred_answer.t = "list")
  => LET gt == LastRow.answer.v
         pred == LastPred.pred_answer.v
     IN /\ (Len(pred) = 2 /\ SameName(pred[1], gt[1]) /\ SameName(pred[2], gt[2]))
             => outcome = Scored(2)
        /\ (Len(pred) = 1 /\ SameName(pred[1], gt[1])) => outcome = Scored(1)
        /\ (Len(pred) = 1 /\ ~SameName(pred[1], gt[1])) => outcome = Scored(0)
        /\ (Len(pred) = 2 /\ ~SameName(pred[1], gt[1]) /\ ~SameName(pred[2], gt[2]))
             => outcome = Scored(0)

\* a single predicted element that matches only b has been scored 0.0 after
\* a sample with half credit
C12_Witness ==
  /\ ScoredAs(FIND_TARGET_OFFSETS_TOOL)
  /\ IsPair(LastRow.answer)
  /\ LastPred.pred_answer.t = "list"
  /\ Len(LastPred.pred_answer.v) = 1
  /\ SameName(LastPred.pred_answer.v[1], LastRow.answer.v[2])
  /\ outcome = Scored(0)
  /\ correct = 1 /\ total = 2

\* the value is None (the record has no such field) or the empty list
EmptyOrAbsent(val) == val = None \/ val = PyList(<<>>)

\* C13 as stated: a matched Find Target Offsets sample whose prediction list
\* or ground truth is empty or absent is scored 0.0 and counted, not skipped
C13_EmptyOrAbsentScoredZero ==
  (/\ ScoredAs(FIND_TARGET_OFFSETS_TOOL)
   /\ \/ EmptyOrAbsent(LastPred.pred_answer)
      \/ EmptyOrAbsent(LastRow.answer))
  => outcome = Scored(0)

\* C13, amended: a matched Find Target Offsets sample whose ground truth is
\* absent is skipped; one whose ground truth is the empty list, or whose
\* prediction list is empty or absent while the ground truth is a list, is
\* scored 0.0 and counted
C13_AbsentGroundTruthSkipped ==
  ScoredAs(FIND_TARGET_OFFSETS_TOOL)
  => /\ LastRow.answer = None => outcome = Skipped
     /\ LastRow.answer = PyList(<<>>) => outcome = Scored(0)
     /\ (EmptyOrAbsent(LastPred.pred_answer) /\ LastRow.answer.t = "list")
          => outcome = Scored(0)

\* an empty prediction list has been scored 0.0 against an empty ground truth
C13_Witness ==
  /\ ScoredAs(FIND_TARGET_OFFSETS_TOOL)
  /\ LastRow.answer = PyList(<<>>)
  /\ LastPred.pred_answer = PyList(<<>>)
  /\ outcome = Scored(0)
  /\ total = matched /\ correct = 0

\* C14: only the first two predicted elements count: a prediction list that
\* carries further elements is scored, against any ground truth, as the list
\* of its first two elements is
C14_FirstTwoDecide ==
  (/\ ScoredAs(FIND_TARGET_OFFSETS_TOOL)
   /\ LastPred.pred_answer.t = "list"
   /\ Len(LastPred.pred_answer.v) > 2)
  => outcome = SampleAccuracy(question_type, history_label, knowledge_label,
                              LastRow.answer,
                              PyList(SubSeq(LastPred.pred_answer.v, 1, 2)))

\* two fractions are the same number
FracEq(a, b) == a[1] * b[2] = b[1] * a[2]

\* a step of the f1 loop has just scored a record that matched a row
ScoredF1 == Stepped /\ pc = "f1" /\ outcome.t = "scored"

\* the F1 of a ground-truth set G and a predicted set P: with precision
\* I / |P| and recall I / |G|, 2PR / (P + R) is 2I / (|G| + |P|)
F1Of(G, P) ==
  IF G = {} /\ P = {} THEN <<1, 1>>
  ELSE IF G = {} \/ P = {} THEN <<0, 1>>
  ELSE <<2 * Cardinality(G \cap P), Cardinality(G) + Cardinality(P)>>

\* C15: the f1 of a sample of the verbose intersection type is 1.0 for two
\* empty sets, 0.0 when exactly one is empty, and otherwise 2PR / (P + R),
\* which is 0.0 for an empty intersection; it lies in [0, 1]
C15_SetF1 ==
  ScoredF1
  => /\ FracEq(outcome.v, F1Of(Range(_to_set(LastRow.answer)),
                               Range(_to_set(PredValueF1(LastPred)))))
     /\ outcome.v[2] > 0
     /\ 0 <= outcome.v[1] /\ outcome.v[1] <= outcome.v[2]

\* the ground truth {a, b} against the prediction {b, c} has scored 0.5
C15_Witness ==
  /\ ScoredF1
  /\ Range(_to_set(LastRow.answer)) = {<<"a">>, <<"b">>}
  /\ Range(_to_set(PredValueF1(LastPred))) = {<<"b">>, <<"c">>}
  /\ FracEq(outcome.v, <<1, 2>>)

\* every record processed so far matched a row, so that f1s[i] is the score
\* of preds[i]
AllMatchedF1 == pc = "f1" /\ Len(f1s) = idx - 1

\* the ground truth and the predicted value of the i-th record
GtOf(i) == data[_pred_key(preds[i])].answer
PredOf(i) == PredValueF1(preds[i])

\* two lists that hold the same elements, in any order and any number of times
Reordered(x, y) == x.t = "list" /\ y.t = "list" /\ Range(x.v) = Range(y.v)

\* C16: the f1 of a sample does not depend on the order of the elements of
\* the ground-truth list or of the predicted list, nor on an element being
\* repeated: two samples whose lists hold the same elements score the same
C16_OrderInsensitive ==
  AllMatchedF1
  => \A i, j \in 1..Len(f1s) :
        (Reordered(GtOf(i), GtOf(j)) /\ Reordered(PredOf(i), PredOf(j)))
        => FracEq(f1s[i], f1s[j])

\* two samples whose ground truths and predictions are reorderings of each
\* other, with a repeated element, have scored the same positive f1
C16_Witness ==
  /\ AllMatchedF1 /\ Len(f1s) = 2
  /\ GtOf(1) # GtOf(2) /\ Reordered(GtOf(1), GtOf(2))
  /\ PredOf(1) # PredOf(2) /\ Reordered(PredOf(1), PredOf(2))
  /\ FracEq(f1s[1], f1s[2]) /\ f1s[1][1] > 0

\* a character that ends an element of a free text: white space or a comma
IsSeparator(c) == IsSpace(c) \/ c = ","

\* the elements of a value: the trimmed elements of a list that are not
\* empty, or the longest runs of a free text without a separator
Members(val) ==
  IF val.t = "list"
  THEN {Strip(val.v[i]) : i \in 1..Len(val.v)} \ {<<>>}
  ELSE IF val.t = "str"
  THEN LET s == val.v
       IN {SubSeq(s, i, j) :
             <<i, j>> \in
               {ij \in (1..Len(s)) \X (1..Len(s)) :
                  /\ ij[1] <= ij[2]
                  /\ \A k \in ij[1]..ij[2] : ~IsSeparator(s[k])
                  /\ ij[1] = 1 \/ IsSeparator(s[ij[1] - 1])
                  /\ ij[2] = Len(s) \/ IsSeparator(s[ij[2] + 1])}}
  ELSE {}

\* the elements of a value without their letter case
Folded(val) == {Lower(m) : m \in Members(val)}

\* C17 as stated: the f1 of a sample is the F1 of the two sets of elements
\* taken without letter case and without surrounding white space
C17_CaseAndSpaceInsensitive ==
  ScoredF1
  => FracEq(outcome.v, F1Of(Folded(LastRow.answer),
                            Folded(PredValueF1(LastPred))))

\* C17, amended: the f1 of a sample is the F1 of the two sets of elements
\* taken without surrounding white space and with their letter case, for a
\* list and for a free text alike
C17_SpaceInsensitive ==
  ScoredF1
  => FracEq(outcome.v, F1Of(Members(LastRow.answer),
                            Members(PredValueF1(LastPred))))

\* a predicted element with white space before it has counted as a member of
\* the intersection, and one that differs in letter case has not
C17_Witness ==
  /\ ScoredF1
  /\ LastRow.answer = PyList(<<<<"a">>, <<"b">>>>)
  /\ PredValueF1(LastPred) = PyList(<<<<" ", "b">>, <<"A">>>>)
  /\ FracEq(outcome.v, <<1, 2>>)

\* evaluate has returned the report of the metric
Reported(metric) == pc = "done" /\ report.metric = metric

\* what the accuracy path makes of the i-th record
ResultOf(i) ==
  IF Matches(_pred_key(preds[i]))
  THEN SampleAccuracy(question_type, history_label, knowledge_label,
                      GtOf(i), preds[i].pred_answer)
  ELSE Unmatched

\* the records that were scored: matched, and not skipped
ScoredRecords == {i \in 1..Len(preds) : ResultOf(i).t = "scored"}

\* the sum of the scores of the records of S, in halves
RECURSIVE Halves(_)
Halves(S) ==
  IF S = {} THEN 0
  ELSE LET i == CHOOSE k \in S : TRUE
       IN ResultOf(i).v[1] + Halves(S \ {i})

\* C18: the accuracy score of the report is the arithmetic mean of the
\* scores (each 0, 0.5 or 1) of the matched samples that were not skipped,
\* which is correct / total; it lies in [0, 1] and is 0.0 when no sample
\* was scored
C18_AccuracyIsMean ==
  Reported("accuracy")
  => LET n == Cardinality(ScoredRecords)
     IN /\ \A i \in ScoredRecords : ResultOf(i).v[1] \in {0, 1, 2}
        /\ report.total = n
        /\ report.correct = Halves(ScoredRecords)
        /\ FracEq(report.score,
                  IF n > 0 THEN <<Halves(ScoredRecords), 2 * n>> ELSE <<0, 1>>)
        /\ report.score[2] > 0
        /\ 0 <= report.score[1] /\ report.score[1] <= report.score[2]

\* the report of a run with a full score, a skipped sample, and so a mean
\* over one sample
C18_Witness ==
  /\ Reported("accuracy")
  /\ report.matched = 2 /\ report.total = 1
  /\ FracEq(report.score, <<1, 1>>)

\* the identifier of a prediction record: its id, else the composite key of
\* sample_id and round, else None
IdentifierOf(pred) ==
  IF pred.id # None THEN pred.id
  ELSE IF pred.sample_id # None /\ pred.round # None
  THEN PyStr(StrOf(pred.sample_id) \o <<"_", "r">> \o StrOf(pred.round))
  ELSE None

\* the identifier of the record is the id of a row of the dataset
Corresponds(pred) ==
  /\ IdentifierOf(pred) # None
  /\ \E i \in 1..Len(rows) : rows[i].id = IdentifierOf(pred)

\* C19: the records whose identifier is missing or is the id of no row change
\* nothing but the skipped counter of the report, which is the number of such
\* records, matched being the number of the other records
C19_SkippedCountsUnmatched ==
  pc = "done"
  => /\ report.skipped =
          Cardinality({i \in 1..Len(preds) : ~Corresponds(preds[i])})
     /\ report.matched =
          Cardinality({i \in 1..Len(preds) : Corresponds(preds[i])})

\* the records that matched no row
UnmatchedRecords == {i \in 1..Len(preds) : ~Matches(_pred_key(preds[i]))}

\* the matched records that the accuracy path skipped for their ground truth
SkippedRecords == {i \in 1..Len(preds) : ResultOf(i).t = "skipped"}

\* C20 as stated: every report, of either metric, carries the counters
\* matched, skipped and total, and skipped counts the records that matched no
\* row only
C20_ReportCounters ==
  pc = "done"
  => /\ {"matched", "skipped", "total"} \subseteq DOMAIN report
     /\ report.skipped = Cardinality(UnmatchedRecords)

\* C20, amended: every report carries matched and skipped, and the accuracy
\* report alone carries total; skipped is the number of records that matched
\* no row, and the number of samples skipped for their ground truth is
\* matched - total of the accuracy report
C20_CountersByMetric ==
  pc = "done"
  => /\ {"matched", "skipped"} \subseteq DOMAIN report
     /\ ("total" \in DOMAIN report) <=> (report.metric = "accuracy")
     /\ report.skipped = Cardinality(UnmatchedRecords)
     /\ report.skipped = Len(preds) - report.matched
     /\ report.metric = "accuracy"
          => report.matched - report.total = Cardinality(SkippedRecords)

\* an accuracy report of a run with one record that matched no row and one
\* sample skipped for its ground truth
C20_Witness ==
  /\ Reported("accuracy")
  /\ report.skipped = 1
  /\ report.matched = 1 /\ report.total = 0
  /\ Cardinality(SkippedRecords) = 1

\* C22: a sample is scored at most once, also when the prediction file holds
\* several records with its identifier: matched and total never exceed the
\* number of samples of the dataset
C22_OncePerSample ==
  pc \in {"f1", "accuracy", "done"}
  => /\ matched <= Cardinality(DOMAIN data)
     /\ total <= Cardinality(DOMAIN data)

\* the orders in which the records of the prediction file can be given
Orders == {[i \in 1..Len(preds) |-> preds[f[i]]] :
             f \in Permutations(1..Len(preds))}

\* matched, total and correct (in halves) after the first n records of ps
RECURSIVE CountersAfter(_, _)
CountersAfter(ps, n) ==
  IF n = 0 THEN <<0, 0, 0>>
  ELSE LET c == CountersAfter(ps, n - 1)
           key == _pred_key(ps[n])
       IN IF ~Matches(key) THEN c
          ELSE LET result == SampleAccuracy(question_type, history_label,
                                            knowledge_label, data[key].answer,
                                            ps[n].pred_answer)
               IN IF result.t = "scored"
                  THEN <<c[1] + 1, c[2] + 1, c[3] + result.v[1]>>
                  ELSE <<c[1] + 1, c[2], c[3]>>

\* the F1 values of the first n records of ps, in their order
RECURSIVE F1sAfter(_, _)
F1sAfter(ps, n) ==
  IF n = 0 THEN <<>>
  ELSE LET key == _pred_key(ps[n])
       IN IF ~Matches(key) THEN F1sAfter(ps, n - 1)
          ELSE Append(F1sAfter(ps, n - 1),
                      SampleF1(data[key].answer, PredValueF1(ps[n])))

\* the mean of a list of F1 values, 0.0 for the empty list
MeanOf(fs) == IF fs # <<>> THEN Div(Sum(fs, 1), <<Len(fs), 1>>) ELSE <<0, 1>>

CountersInOrder(c, t, m, n) ==
  /\ 0 <= c /\ c <= 2 * t
  /\ t <= m
  /\ m <= n /\ n <= Len(preds)

\* one record taken by the accuracy fold
AccuracyStep == pc = "accuracy" /\ idx' = idx + 1

\* C24: at every step of the accuracy fold and in its report,
\* 0 <= correct <= total <= matched <= number of prediction records and
\* skipped = number of records - matched >= 0; a record raises correct by
\* 0, 0.5 or 1, and by no more than it raises total
C24_CounterBounds ==
  /\ [](pc = "accuracy" => CountersInOrder(correct, total, matched, idx - 1))
  /\ [](Reported("accuracy")
          => /\ CountersInOrder(report.correct, report.total, report.matched,
                                Len(preds))
             /\ report.skipped = Len(preds) - report.matched
             /\ report.skipped >= 0)
  /\ [][AccuracyStep
          => /\ correct' - correct \in {0, 1, 2}
             /\ total' - total \in {0, 1}
             /\ matched' - matched \in {0, 1}
             /\ correct' - correct <= 2 * (total' - total)]_vars

\* a report after a record scored 0.5 and a record that matched no row
C24_Witness ==
  /\ Reported("accuracy")
  /\ report.correct = 1 /\ report.total = 1
  /\ report.matched = 1 /\ report.skipped = 1

\* C25: a prediction record whose identifier (its id of either type, else its
\* composite key) is the id of a dataset row is matched and scored against
\* that row
C25_IdentifierMatches ==
  Stepped /\ Corresponds(LastPred)
  => /\ outcome.t # "unmatched"
     /\ Matches(_pred_key(LastPred))
     /\ data[_pred_key(LastPred)].id = IdentifierOf(LastPred)

\* the dataset holds two or more question types
Mixed(rs) ==
  Cardinality({rs[i].question_type : i \in 1..Len(rs)}) >= 2

\* a sample has been handed to the model
Called == \E i \in 1..Len(results) : results[i].t # "running"

\* C21: a dataset that mixes question types, or is empty, makes run fail
\* with an error before any model call is made
C21_MixedOrEmptyIsFatal ==
  pc # "run" /\ (rows = <<>> \/ Mixed(rows))
  => /\ pc \in {"raised", "vllm_raised"}
     /\ returned = Raised("ValueError")
     /\ ~Called

\* the rows run works on
Sliced == slice_rows(rows, args.offset, args.limit)

\* the file run has found holds a record of the id with a response that is
\* not blank
Answered(id) ==
  \E i \in 1..Len(old_file) :
     /\ old_file[i].id = id
     /\ old_file[i].raw_response.t = "str"
     /\ Strip(old_file[i].raw_response.v) # <<>>

\* the samples handed to the model so far
Sent == {pending_rows[i] : i \in {j \in 1..Len(results) :
                                    results[j].t # "running"}}

\* run of eval/run.py has started, and has returned
Started == pc \in {"serial", "parallel", "done", "raised"}
Returned == pc = "done"

Produced == {results[i].v : i \in {j \in 1..Len(results) :
                                     results[j].t = "result"}}

\* the ids this run has produced a record for
Reprocessed == {record.id : record \in Produced} \ {None}

\* C27: when a resumed run has returned, the output file holds at most one
\* record for an id, the records of the ids that were not reprocessed are
\* the ones found in the file, and a reprocessed id holds the record this
\* run has produced instead of the old one
C27_ResumeKeepsTheRest ==
  Returned /\ args.resume
  => /\ \A i, j \in 1..Len(output_file) :
           i # j => output_file[i].id # output_file[j].id
     /\ \A k \in 1..Len(old_file) :
           old_file[k].id \notin Reprocessed
           => old_file[k] \in Range(output_file)
     /\ \A record \in Produced :
           record.id # None
           => \A i \in 1..Len(output_file) :
                 output_file[i].id = record.id => output_file[i] = record
     /\ \A record \in Produced :
           record.id # None => record \in Range(output_file)

\* a resumed run that has kept one record of the file and has replaced
\* another
C27_Witness ==
  /\ Returned /\ args.resume
  /\ \E i, j \in 1..Len(old_file) :
        /\ old_file[i] \in Range(output_file)
        /\ old_file[j].id \in Reprocessed
        /\ old_file[j] \notin Range(output_file)

\* the records of this run in the output file
WrittenNow == {i \in 1..Len(output_file) : output_file[i].origin = "this"}

\* C28: the count run returns is the number of records of this run that are
\* in the output file it has written, samples without id included
C28_CountIsRecordsWritten ==
  Returned => returned = Cardinality(WrittenNow)

\* the records found in the file, as run loads them
Existing == IF args.resume THEN _load_existing_records(old_file) ELSE <<>>

\* what the single-worker loop makes of the samples that have given a
\* record, taken in the order of pending_rows from the i-th on
RECURSIVE SerialFrom(_, _)
SerialFrom(i, records) ==
  IF i > Len(results) THEN records
  ELSE SerialFrom(i + 1,
                  IF results[i].t = "result" /\ results[i].v.id # None
                  THEN Put(records, results[i].v) ELSE records)

\* one future has been taken from the pool, and run goes on
FutureStep == pc = "parallel" /\ results' # results

\* C29: with workers > 1, whatever the order in which the futures complete,
\* the records of the output file are those the single-worker loop writes
\* for the samples that have given a record; a sample that raises is left
\* out and not counted, and the futures of the other samples go on
C29_PoolWritesWhatLoopWrites ==
  /\ [](Returned /\ args.workers > 1
          => /\ Range(output_file) = Range(SerialFrom(1, Existing))
             /\ returned = Cardinality({i \in 1..Len(results) :
                                          results[i].t = "result"})
             /\ \A i \in WrittenNow : output_file[i] \in Produced
             /\ \A i \in 1..Len(results) : results[i].t # "running")
  /\ [][FutureStep
          => \E i \in 1..Len(results) :
                /\ results[i].t = "running"
                /\ results' = [results EXCEPT ![i] = results'[i]]]_vars

\* a pooled run of three samples in which the second has completed before
\* the first, both have given a record and the third has raised
C29_Witness ==
  /\ Returned /\ args.workers > 1
  /\ Len(results) = 3
  /\ results[1].t = "result" /\ results[2].t = "result"
  /\ results[3].t = "raise"
  /\ output_file = <<results[2].v, results[1].v>>
  /\ returned = 2

\* C30: in resume mode, on the same slice and the same file, the samples
\* run of eval/run.py takes as pending are those the offline runner takes
C30_SamePending ==
  pc \in {"serial", "parallel", "done"} /\ args.resume
  => pending_rows = filter_pending(Sliced, load_completed_ids(old_file))

====
